---------------------------- MODULE Spec2Model ----------------------------
(***************************************************************************)
(* Conversational session/flow engine of the DJS chatbot: the dedup cache  *)
(* (CacheSystem), the session store (StateManager), the router (MainFlow)  *)
(* and the quote-intake flow (CotacaoFlow), with the text helpers (Utils)  *)
(* they match on.  Texts are strings; a character is a string of length 1. *)
(***************************************************************************)
EXTENDS Integers, Sequences, FiniteSets, TLC

(***************************************************************************)
(* JavaScript values that are not strings or records.                      *)
(***************************************************************************)
Undef == "<undefined>"
Null == "<null>"

(***************************************************************************)
(* Characters.                                                             *)
(***************************************************************************)
DigitChars == "0123456789"
LowerChars == "abcdefghijklmnopqrstuvwxyz"
UpperChars == "ABCDEFGHIJKLMNOPQRSTUVWXYZ"
SpaceChars == " "
\* accented letters of Portuguese, upper case and lower case, and the base
\* letter NFD decomposes each lower-case one into
AccentUpper == "ÁÀÂÃÉÊÍÓÔÕÚÇ"
AccentLower == "áàâãéêíóôõúç"
AccentBase == "aaaaeeiooouc"

\* 1-based position of the first character c in s, 0 when absent
IndexOf(c, s) ==
    IF \A i \in 1..Len(s) : SubSeq(s, i, i) # c THEN 0
    ELSE CHOOSE i \in 1..Len(s) :
             SubSeq(s, i, i) = c /\ \A j \in 1..(i - 1) : SubSeq(s, j, j) # c

CharAt(s, i) == SubSeq(s, i, i)
IsDigit(c) == IndexOf(c, DigitChars) > 0
IsLower(c) == IndexOf(c, LowerChars) > 0
IsUpper(c) == IndexOf(c, UpperChars) > 0
IsSpace(c) == IndexOf(c, SpaceChars) > 0
\* \w of a JavaScript regular expression: [A-Za-z0-9_]
IsWord(c) == IsDigit(c) \/ IsLower(c) \/ IsUpper(c) \/ c = "_"
DigitVal(c) == IndexOf(c, DigitChars) - 1

IsAccented(c) == IndexOf(c, AccentUpper) > 0 \/ IndexOf(c, AccentLower) > 0

\* the first half and the second half of a string or sequence of more than one
\* element
FirstHalf(s) == SubSeq(s, 1, Len(s) \div 2)
SecondHalf(s) == SubSeq(s, Len(s) \div 2 + 1, Len(s))

RECURSIVE ToLowerCase(_)
ToLowerCase(s) ==
    IF Len(s) > 1 THEN ToLowerCase(FirstHalf(s)) \o ToLowerCase(SecondHalf(s))
    ELSE LET i == IndexOf(s, UpperChars)
             j == IndexOf(s, AccentUpper)
         IN IF s = "" THEN ""
            ELSE IF i > 0 THEN CharAt(LowerChars, i)
            ELSE IF j > 0 THEN CharAt(AccentLower, j) ELSE s

RECURSIVE StripAccents(_)
\* .normalize('NFD').replace(/[\u0300-\u036f]/g, '') on lower-case text
StripAccents(s) ==
    IF Len(s) > 1 THEN StripAccents(FirstHalf(s)) \o StripAccents(SecondHalf(s))
    ELSE LET j == IndexOf(s, AccentLower)
         IN IF s = "" THEN "" ELSE IF j > 0 THEN CharAt(AccentBase, j) ELSE s

RECURSIVE ToUpperCase(_)
ToUpperCase(s) ==
    IF Len(s) > 1 THEN ToUpperCase(FirstHalf(s)) \o ToUpperCase(SecondHalf(s))
    ELSE LET i == IndexOf(s, LowerChars)
         IN IF s = "" THEN "" ELSE IF i > 0 THEN CharAt(UpperChars, i) ELSE s

TrimStart(s) ==
    LET kept == { i \in 1..Len(s) : ~IsSpace(CharAt(s, i)) }
    IN IF kept = {} THEN ""
       ELSE SubSeq(s, CHOOSE i \in kept : \A j \in kept : i <= j, Len(s))

TrimEnd(s) ==
    LET kept == { i \in 1..Len(s) : ~IsSpace(CharAt(s, i)) }
    IN IF kept = {} THEN ""
       ELSE SubSeq(s, 1, CHOOSE i \in kept : \A j \in kept : i >= j)

\* String.prototype.trim
Trim(s) == TrimEnd(TrimStart(s))

RECURSIVE PunctToSpace(_)
\* .replace(/[^\w\s]/g, ' ')
PunctToSpace(s) ==
    IF Len(s) > 1 THEN PunctToSpace(FirstHalf(s)) \o PunctToSpace(SecondHalf(s))
    ELSE IF s = "" \/ IsWord(s) \/ IsSpace(s) THEN s ELSE " "

\* two strings whose runs of white space are single spaces, put together
JoinCollapsed(l, r) ==
    IF l # "" /\ r # "" /\ IsSpace(CharAt(l, Len(l))) /\ IsSpace(CharAt(r, 1))
    THEN l \o SubSeq(r, 2, Len(r))
    ELSE l \o r

RECURSIVE CollapseSpaces(_)
\* .replace(/\s+/g, ' ')
CollapseSpaces(s) ==
    IF Len(s) > 1
    THEN JoinCollapsed(CollapseSpaces(FirstHalf(s)), CollapseSpaces(SecondHalf(s)))
    ELSE IF s # "" /\ IsSpace(s) THEN " " ELSE s

RECURSIVE OnlyDigits(_)
\* .replace(/[^\d]/g, '') and .replace(/\D/g, '')
OnlyDigits(s) ==
    IF Len(s) > 1 THEN OnlyDigits(FirstHalf(s)) \o OnlyDigits(SecondHalf(s))
    ELSE IF IsDigit(s) THEN s ELSE ""

RECURSIVE OnlyAlnum(_)
\* .replace(/[^A-Za-z0-9]/g, '')
OnlyAlnum(s) ==
    IF Len(s) > 1 THEN OnlyAlnum(FirstHalf(s)) \o OnlyAlnum(SecondHalf(s))
    ELSE IF IsDigit(s) \/ IsLower(s) \/ IsUpper(s) THEN s ELSE ""

\* String.prototype.includes
Includes(s, t) ==
    \E i \in 1..(Len(s) - Len(t) + 1) : SubSeq(s, i, i + Len(t) - 1) = t

\* the match of /^(\d+)/, "" when there is none
LeadingDigits(s) ==
    LET others == { i \in 1..Len(s) : ~IsDigit(CharAt(s, i)) }
    IN IF others = {} THEN s
       ELSE SubSeq(s, 1, (CHOOSE i \in others : \A j \in others : i <= j) - 1)

RECURSIVE StripZeros(_)
StripZeros(s) ==
    IF Len(s) > 1 /\ Head(s) = "0" THEN StripZeros(Tail(s)) ELSE s

\* parseInt of a digit string, kept as the decimal numeral String(n) prints
ParseInt(ds) == StripZeros(ds)

(***************************************************************************)
(* Utils (src/backend/src/core/utils.js).                                  *)
(***************************************************************************)
normalizeText(text) ==
    IF text = "" \/ text = Undef \/ text = Null THEN ""
    ELSE CollapseSpaces(PunctToSpace(StripAccents(Trim(ToLowerCase(text)))))

SomeIncluded(normalized, words) ==
    \E i \in 1..Len(words) : Includes(normalized, words[i])

greetings ==
    << "oi", "ola", "olá", "hello", "hi", "bom dia", "boa tarde", "boa noite",
       "bomdia", "boatarde", "boanoite", "oi bom dia", "ola bom dia",
       "eae", "e ai", "salve" >>

isGreeting(text) == SomeIncluded(normalizeText(text), greetings)

farewells ==
    << "tchau", "ate mais", "ate logo", "ate breve", "obrigado", "obrigada",
       "valeu", "ok obrigado", "tudo bem obrigado", "ja consegui",
       "ja resolvi", "fui", "vlw", "valeu mesmo" >>

isFarewell(text) == SomeIncluded(normalizeText(text), farewells)

humanRequests ==
    << "atendente", "atendimento", "humano", "pessoa", "falar com alguem",
       "falar com pessoa", "quero falar com atendente", "preciso de ajuda",
       "corretor", "vendedor", "consultor", "nao consigo", "nao entendi",
       "ajuda", "suporte", "help" >>

isRequestingHuman(text) == SomeIncluded(normalizeText(text), humanRequests)

menuCommands ==
    << "menu", "inicio", "começar", "comecar", "voltar", "start", "reiniciar" >>

isMenuCommand(text) == SomeIncluded(normalizeText(text), menuCommands)

backRequests ==
    << "voltar", "volta", "anterior", "antes", "menu anterior",
       "opcao anterior", "back" >>

isRequestingBack(text) == SomeIncluded(normalizeText(text), backRequests)

numberWords ==
    << <<"um", "1">>, <<"uma", "1">>, <<"primeiro", "1">>, <<"primeira", "1">>,
       <<"dois", "2">>, <<"duas", "2">>, <<"segundo", "2">>, <<"segunda", "2">>,
       <<"tres", "3">>, <<"terceiro", "3">>, <<"terceira", "3">>,
       <<"quatro", "4">>, <<"quarto", "4">>, <<"quarta", "4">>,
       <<"cinco", "5">>, <<"quinto", "5">>, <<"quinta", "5">>,
       <<"seis", "6">>, <<"sexto", "6">>, <<"sexta", "6">>,
       <<"sete", "7">>, <<"setimo", "7">>, <<"setima", "7">>,
       <<"oito", "8">>, <<"oitavo", "8">>, <<"oitava", "8">>,
       <<"nove", "9">>, <<"nono", "9">>, <<"nona", "9">>,
       <<"dez", "10">>, <<"decimo", "10">>, <<"decima", "10">> >>

\* the option number as its decimal numeral, Null when there is none
extractOptionNumber(text) ==
    LET normalized == normalizeText(text)
        lead == LeadingDigits(normalized)
        hits == { i \in 1..Len(numberWords) : Includes(normalized, numberWords[i][1]) }
    IN IF lead # "" THEN ParseInt(lead)
       ELSE IF hits # {}
            THEN numberWords[CHOOSE i \in hits : \A j \in hits : i <= j][2]
            ELSE Null

isValidEmail(email) ==
    LET n == Len(email)
        ats == { i \in 1..n : CharAt(email, i) = "@" }
    IN /\ \A i \in 1..n : ~IsSpace(CharAt(email, i))
       /\ Cardinality(ats) = 1
       /\ LET p == CHOOSE i \in ats : TRUE
          IN /\ p > 1
             /\ \E q \in (p + 2)..(n - 1) : CharAt(email, q) = "."

RECURSIVE WeightedSum(_, _, _)
\* sum over i < count of digit(i) * (weight - i), i counted from 0
WeightedSum(numbers, count, weight) ==
    IF count = 0 THEN 0
    ELSE WeightedSum(numbers, count - 1, weight)
         + DigitVal(CharAt(numbers, count)) * (weight - (count - 1))

CheckDigit(sum) ==
    LET d == 11 - (sum % 11) IN IF d > 9 THEN 0 ELSE d

\* isValidCPF without its test for one repeated digit
isValidCPFRepeated(cpf) ==
    IF cpf = "" \/ cpf = Undef \/ cpf = Null THEN FALSE
    ELSE LET numbers == OnlyDigits(cpf)
         IN /\ Len(numbers) = 11
            /\ CheckDigit(WeightedSum(numbers, 9, 10)) = DigitVal(CharAt(numbers, 10))
            /\ CheckDigit(WeightedSum(numbers, 10, 11)) = DigitVal(CharAt(numbers, 11))

isValidCPF(cpf) ==
    IF cpf = "" \/ cpf = Undef \/ cpf = Null THEN FALSE
    ELSE LET numbers == OnlyDigits(cpf)
         IN /\ Len(numbers) = 11
            /\ ~(\A i \in 1..11 : CharAt(numbers, i) = CharAt(numbers, 1))
            /\ CheckDigit(WeightedSum(numbers, 9, 10)) = DigitVal(CharAt(numbers, 10))
            /\ CheckDigit(WeightedSum(numbers, 10, 11)) = DigitVal(CharAt(numbers, 11))

(***************************************************************************)
(* Program constants.                                                      *)
(***************************************************************************)
\* CacheSystem.defaultTTL, milliseconds
defaultTTL == 60000
\* the delay of the deferred finalization callbacks, milliseconds
FinalizationDelay == 2000
\* transferToHuman disables the bot for this many minutes
TransferMinutes == 60
MsPerMinute == 60 * 1000

\* the period of the auto-save
AutoSaveMs == 30000

\* the inactivity after which start() removes a session
MaxInactiveHours == 24

(***************************************************************************)
(* Bounds of the model.                                                    *)
(***************************************************************************)
\* inbound events delivered in one behaviour
MaxEvents == 2
\* handler invocations suspended on I/O at the same time
MaxInFlight == 2
\* advances of the clock in one behaviour
MaxTicks == 1
\* control-surface calls in one behaviour
MaxAdmin == 1
\* the clock advances by this much, or to the next pending timer
TickMs == defaultTTL \div 2

(***************************************************************************)
(* The program's state.                                                    *)
(***************************************************************************)
VARIABLES
    now,          \* Date.now(), milliseconds
    chatbot_is_on,\* StateManager.state.chatbot_is_on
    sessions,     \* StateManager.state.sessions: phone -> session
    stats,        \* StateManager.state.stats
    botTimers,    \* pending re-enable timers of disableBot: due times
    cache,        \* CacheSystem.cache: key -> entry
    cacheTimers,  \* pending per-entry delete timers: [key, at]
    marked,       \* history: key -> the time and the ttl of its last insertion since the
                  \* last clear()
    disabledUntil,\* history: the end of the window of the latest disableBot call, 0 once
                  \* enableBot was called after it
    users,        \* history: the addresses a session was created for
    saved,        \* state.json: << >> while there is no file, else << its content >>
    tasks,        \* processMessage invocations suspended on an await, and whether each
                  \* has requested a send to the sender of its event
    deferred,     \* pending setTimeout callbacks and their continuations
    leads,        \* rows appended to leads.csv (the export sink)
    sheets,       \* the spreadsheet service: isReady() and the rows it saved
    out,          \* outbound sends requested by the last step
    last,         \* the last processMessage invocation that returned: its message,
                  \* whether it passed the duplicate check, what it returned
    inbox,        \* the messages the transport delivers
    wa,           \* the WhatsAppService instance and what its client was asked to send
    budget        \* what is left of the bounds

vars == << now, chatbot_is_on, sessions, stats, botTimers, cache, cacheTimers, marked,
           disabledUntil, users, saved,
           tasks, deferred, leads, sheets, out, last, inbox, wa, budget >>

(***************************************************************************)
(* Functions with a dynamic domain (JavaScript objects used as maps, Map). *)
(***************************************************************************)
EmptyMap == [k \in {} |-> Undef]
MapSet(m, key, v) == [k \in DOMAIN m \cup {key} |-> IF k = key THEN v ELSE m[k]]
MapDelete(m, key) == [k \in DOMAIN m \ {key} |-> m[k]]

(***************************************************************************)
(* CacheSystem (src/unnamed/part_003, lines 273-428).  The operators take  *)
(* and return the record c = [cache, cacheTimers].                         *)
(***************************************************************************)
CacheSet(c, key, value, ttl, t) ==
    [ cache |-> MapSet(c.cache, key, [value |-> value, expirationTime |-> t + ttl,
                                       createdAt |-> t]),
      cacheTimers |-> c.cacheTimers \cup {[key |-> key, at |-> t + ttl]} ]

\* get without the test of the expiration time
CacheGetUnexpiring(c, key, t) ==
    IF key \notin DOMAIN c.cache THEN [found |-> FALSE, c |-> c]
    ELSE [found |-> TRUE, value |-> c.cache[key].value, c |-> c]

\* get: whether a live entry was found (get returns null otherwise), its value,
\* and the cache after the lazy removal of an expired entry
CacheGet(c, key, t) ==
    IF key \notin DOMAIN c.cache THEN [found |-> FALSE, c |-> c]
    ELSE IF t > c.cache[key].expirationTime
         THEN [found |-> FALSE, c |-> [c EXCEPT !.cache = MapDelete(c.cache, key)]]
         ELSE [found |-> TRUE, value |-> c.cache[key].value, c |-> c]

CacheHas(c, key, t) ==
    LET g == CacheGet(c, key, t) IN [has |-> g.found, c |-> g.c]

CacheDelete(c, key) == [c EXCEPT !.cache = MapDelete(c.cache, key)]

performCleanup(c, t) ==
    [c EXCEPT !.cache = [k \in {x \in DOMAIN c.cache : ~(t > c.cache[x].expirationTime)}
                            |-> c.cache[k]]]

generateMessageKey(from, messageId) == "msg_" \o from \o "_" \o messageId

isMessageProcessed(c, from, messageId, t) ==
    CacheHas(c, generateMessageKey(from, messageId), t)

markMessageProcessed(c, from, messageId, t) ==
    CacheSet(c, generateMessageKey(from, messageId), TRUE, defaultTTL, t)

CacheClear(c) == [c EXCEPT !.cache = EmptyMap]

(***************************************************************************)
(* Sessions (src/unnamed/part_003, lines 9-266).                           *)
(***************************************************************************)
\* session.data.cotacao = {}
EmptyCotacao ==
    [ nome |-> Undef, email |-> Undef, cpf |-> Undef, tipo_seguro |-> Undef,
      veiculo_marca |-> Undef, veiculo_placa_chassi |-> Undef,
      tipo_identificacao |-> Undef, cep_pernoite |-> Undef ]

\* session.data.cotacao undefined (a record, as a defined one is)
NoCotacao == [f \in DOMAIN EmptyCotacao |-> Null]

\* session.data = {}
EmptyData ==
    [ tipo_usuario |-> Undef, cotacao |-> NoCotacao, transferred_at |-> Undef,
      reason |-> Undef ]

\* { ...x } of a cotacao object that may be undefined
SpreadCotacao(x) == IF x = NoCotacao THEN EmptyCotacao ELSE x

NewSession(t) ==
    [ currentFlow |-> "welcome", currentStep |-> "inicio", data |-> EmptyData,
      history |-> << >>, createdAt |-> t, lastActivity |-> t ]

\* The operators below take and return the record s = [sessions, stats].
\* getUserSession counting the call as a new user whether or not it creates
getUserSessionCounting(s, phone, t) ==
    LET created == IF phone \in DOMAIN s.sessions THEN s
                   ELSE [s EXCEPT !.sessions = MapSet(s.sessions, phone, NewSession(t))]
    IN [created EXCEPT !.sessions[phone].lastActivity = t, !.stats.total_users = @ + 1]

getUserSession(s, phone, t) ==
    LET created == IF phone \in DOMAIN s.sessions THEN s
                   ELSE [ sessions |-> MapSet(s.sessions, phone, NewSession(t)),
                          stats |-> [s.stats EXCEPT !.total_users = @ + 1] ]
    IN [created EXCEPT !.sessions[phone].lastActivity = t]

\* Object.assign(session, updates)
Assign(session, updates) ==
    [f \in DOMAIN session |-> IF f \in DOMAIN updates THEN updates[f] ELSE session[f]]

\* updateUserSession with the record pushed after Object.assign
updateUserSessionMergeFirst(s, phone, updates, t) ==
    LET got == getUserSession(s, phone, t)
        session == Assign(got.sessions[phone], updates)
        pushed == IF "currentFlow" \in DOMAIN updates
                     /\ updates.currentFlow # ""
                     /\ updates.currentFlow # session.currentFlow
                  THEN [session EXCEPT !.history =
                           Append(@, [from |-> session.currentFlow,
                                      to |-> updates.currentFlow, timestamp |-> t])]
                  ELSE session
    IN [got EXCEPT !.sessions[phone] = [pushed EXCEPT !.lastActivity = t]]

updateUserSessionFromCreation(s, phone, updates, t) ==
    LET got == getUserSession(s, phone, t)
        session == got.sessions[phone]
        pushed == IF "currentFlow" \in DOMAIN updates
                     /\ updates.currentFlow # ""
                     /\ updates.currentFlow # session.currentFlow
                  THEN [session EXCEPT !.history =
                           Append(@, [from |-> "welcome",
                                      to |-> updates.currentFlow, timestamp |-> t])]
                  ELSE session
    IN [got EXCEPT !.sessions[phone] = [Assign(pushed, updates) EXCEPT !.lastActivity = t]]

updateUserSessionTouchingAll(s, phone, updates, t) ==
    LET got == getUserSession(s, phone, t)
        session == got.sessions[phone]
        pushed == IF "currentFlow" \in DOMAIN updates
                     /\ updates.currentFlow # ""
                     /\ updates.currentFlow # session.currentFlow
                  THEN [session EXCEPT !.history =
                           Append(@, [from |-> session.currentFlow,
                                      to |-> updates.currentFlow, timestamp |-> t])]
                  ELSE session
    IN [got EXCEPT !.sessions =
           [p \in DOMAIN got.sessions |->
              IF p = phone THEN [Assign(pushed, updates) EXCEPT !.lastActivity = t]
              ELSE [got.sessions[p] EXCEPT !.lastActivity = t]]]

updateUserSession(s, phone, updates, t) ==
    LET got == getUserSession(s, phone, t)
        session == got.sessions[phone]
        pushed == IF "currentFlow" \in DOMAIN updates
                     /\ updates.currentFlow # ""
                     /\ updates.currentFlow # session.currentFlow
                  THEN [session EXCEPT !.history =
                           Append(@, [from |-> session.currentFlow,
                                      to |-> updates.currentFlow, timestamp |-> t])]
                  ELSE session
    IN [got EXCEPT !.sessions[phone] = [Assign(pushed, updates) EXCEPT !.lastActivity = t]]

removeUserSession(s, phone) == [s EXCEPT !.sessions = MapDelete(s.sessions, phone)]

incrementMessageCount(s) == [s EXCEPT !.stats.total_messages = @ + 1]

(***************************************************************************)
(* Continuations.  An async function is the sequence of the operations it  *)
(* still has to perform; one step of the model runs a continuation up to   *)
(* and including its next await of I/O.                                    *)
(***************************************************************************)
\* await whatsappService.sendText(to, ...) / sendListMessage(to, ...)
Send(to, kind, tag) == [op |-> "send", to |-> to, kind |-> kind, tag |-> tag]
\* stateManager.updateUserSession(phone, updates)
Upd(phone, updates) == [op |-> "upd", phone |-> phone, updates |-> updates]
\* return v ("true", "false"); "sent" is the result of the send just awaited:
\* sendText and sendListMessage return true, or false when the transport failed
Ret(v) == [op |-> "ret", val |-> v]
\* an exception thrown at this point
Throw(what) == [op |-> "throw", what |-> what]
\* await of I/O that is no outbound message (sendSeen, startTyping)
Await(what) == [op |-> "await", what |-> what]
\* setTimeout(callback, FinalizationDelay)
SetTimeout(callback) == [op |-> "timeout", callback |-> callback]
\* csvService.salvarLead(row) and googleSheetsService.salvarCotacao(row)
SaveCSV(row) == [op |-> "csv", row |-> row]
SaveSheets(row) == [op |-> "sheets", row |-> row]
EnableBot == [op |-> "enable"]
DisableBot(minutes) == [op |-> "disable", minutes |-> minutes]
\* updateUserSession(from, {atendimento, transferido, data: {transferred_at, reason}})
UpdTransferred(from, reason) == [op |-> "updTransferred", phone |-> from, reason |-> reason]
\* mainFlow.transferToHuman(from, reason), which reads the session when called
Transfer(from, reason) == [op |-> "transfer", from |-> from, reason |-> reason]

\* cacheSystem.markMessageProcessed(from, id)
Mark(from, id) == [op |-> "mark", from |-> from, id |-> id]
\* stateManager.incrementMessageCount()
Count == [op |-> "count"]
\* stateManager.getUserSession(phone)
GetSession(phone) == [op |-> "getSession", phone |-> phone]
\* processMessage after its await of markAsRead
Route(info) == [op |-> "route", info |-> info]
\* if (await this.handleGlobalCommands(from, body)) return true, the call having
\* run up to its return of v; processMessage goes on when the value is false
IfHandled(v, info) == [op |-> "ifHandled", val |-> v, info |-> info]
\* processMessage from its read of the session on
Dispatch(info) == [op |-> "dispatch", info |-> info]
\* processMessage after its await of sendTyping: currentFlow was read before the
\* await; session is << >> while the object it holds is still the stored one
Flow(currentFlow, info, session) ==
    [op |-> "flow", currentFlow |-> currentFlow, info |-> info, session |-> session]

\* the operations of an awaited call, without its return
Body(ops) == IF ops # << >> /\ ops[Len(ops)].op = "ret" THEN SubSeq(ops, 1, Len(ops) - 1) ELSE ops

\* try { ops } catch { handler }: ops cut at their first throw, then handler
TryCatch(ops, handler) ==
    LET throws == { i \in 1..Len(ops) : ops[i].op = "throw" }
    IN IF throws = {} THEN ops
       ELSE SubSeq(ops, 1, (CHOOSE i \in throws : \A j \in throws : i <= j) - 1) \o handler

(***************************************************************************)
(* MainFlow helpers the quote flow calls (src/unnamed/part_007).           *)
(***************************************************************************)
sendMainMenu(from) == << Send(from, "list", "mainMenu"), Ret("sent") >>

(***************************************************************************)
(* CotacaoFlow (src/backend/src/flows/cotacaoFlow.js).  A handler is the   *)
(* continuation it amounts to for (from, input, session).                  *)
(***************************************************************************)
steps ==
    { "tipo_seguro", "dados_iniciais", "coleta_nome", "coleta_email", "continuacao",
      "coleta_cpf", "dados_veiculo", "coleta_placa_chassi", "coleta_cep_pernoite",
      "resumo", "finalizado" }

\* the back test every step handler opens with
WantsBack(input) ==
    LET normalized == normalizeText(input)
    IN Includes(input, "voltar") \/ Includes(normalized, "voltar")
       \/ isRequestingBack(normalized)

solicitarNome(from) == << Send(from, "text", "solicitarNome"), Ret("true") >>
solicitarEmail(from) == << Send(from, "text", "solicitarEmail"), Ret("true") >>
solicitarCPF(from) == << Send(from, "text", "solicitarCPF"), Ret("true") >>
solicitarDadosVeiculo(from) == << Send(from, "text", "solicitarDadosVeiculo"), Ret("true") >>

\* start entering the flow without naming its first step
startWithoutStep(from) ==
    << Upd(from, [ currentFlow |-> "cotacao",
                   data |-> [EmptyData EXCEPT !.cotacao = EmptyCotacao] ]) >>
    \o solicitarNome(from)

start(from) ==
    << Upd(from, [ currentFlow |-> "cotacao", currentStep |-> "coleta_nome",
                   data |-> [EmptyData EXCEPT !.cotacao = EmptyCotacao] ]) >>
    \o solicitarNome(from)

oferecerContinuacao(from) ==
    << Send(from, "text", "oferecerContinuacao"),
       Upd(from, [currentStep |-> "continuacao"]),
       Ret("true") >>

getTipoSeguroTexto(tipo) ==
    CASE tipo = "auto" -> "Seguro Auto"
      [] tipo = "residencial" -> "Seguro Residencial"
      [] tipo = "vida" -> "Seguro de Vida"
      [] tipo = "empresarial" -> "Seguro Empresarial"
      [] tipo = "outros" -> "Outros Seguros"
      [] OTHER -> "Seguro"

\* cep.replace(/(\d{5})(\d{3})/, '$1-$2') of a digit string
formatCEP(cep) ==
    IF Len(cep) >= 8 THEN SubSeq(cep, 1, 5) \o "-" \o SubSeq(cep, 6, Len(cep)) ELSE cep

\* x || '' of a field that is a string or undefined
OrEmpty(x) == IF x = Undef THEN "" ELSE x

RECURSIVE Join(_, _)
Join(parts, sep) ==
    IF parts = << >> THEN ""
    ELSE IF Len(parts) = 1 THEN parts[1]
    ELSE parts[1] \o sep \o Join(Tail(parts), sep)

formatarObservacoes(cotacao) ==
    LET tipo == IF OrEmpty(cotacao.tipo_seguro) # ""
                THEN << "Tipo: " \o cotacao.tipo_seguro >> ELSE << >>
        marca == IF OrEmpty(cotacao.veiculo_marca) # ""
                    /\ cotacao.veiculo_marca # "Não informado"
                 THEN << "Marca: " \o cotacao.veiculo_marca >> ELSE << >>
        placa == IF OrEmpty(cotacao.veiculo_placa_chassi) # ""
                 THEN << (IF cotacao.tipo_identificacao = "placa" THEN "Placa" ELSE "Chassi")
                         \o ": " \o cotacao.veiculo_placa_chassi >> ELSE << >>
        cep == IF OrEmpty(cotacao.cep_pernoite) # ""
               THEN << "CEP Pernoite: " \o formatCEP(cotacao.cep_pernoite) >> ELSE << >>
    IN Join(tipo \o marca \o placa \o cep, " | ")

\* dadosParaSalvar of salvarCotacaoCSV and salvarCotacaoGoogleSheets
dadosParaSalvar(from, cotacao) ==
    [ nome |-> cotacao.nome, email |-> cotacao.email, telefone |-> OnlyDigits(from),
      cpf |-> cotacao.cpf, tipoSeguro |-> getTipoSeguroTexto(cotacao.tipo_seguro),
      veiculo |-> OrEmpty(cotacao.veiculo_marca), cep |-> OrEmpty(cotacao.cep_pernoite),
      observacoes |-> formatarObservacoes(cotacao), whatsapp |-> from ]

\* mostrarResumo moving on to the finalization without saving the quote
mostrarResumoWithoutExport(from, data) ==
    IF data.cotacao = NoCotacao THEN << Throw("cotacao is undefined") >>
    ELSE IF data.cotacao.cpf = Undef THEN << Throw("cpf is undefined") >>
    ELSE << Send(from, "text", "resumo"),
            Upd(from, [currentStep |-> "finalizado", currentFlow |-> "finalization"]),
            SetTimeout(<< Send(from, "text", "cotacaoSolicitada"),
                          Send(from, "list", "finalizationMenu"),
                          Ret("true") >>),
            Ret("true") >>

\* mostrarResumo(from, session), session.data = data
mostrarResumo(from, data) ==
    IF data.cotacao = NoCotacao THEN << Throw("cotacao is undefined") >>
    ELSE IF data.cotacao.cpf = Undef THEN << Throw("cpf is undefined") >>
    ELSE << Send(from, "text", "resumo"),
            SaveCSV(dadosParaSalvar(from, data.cotacao)),
            SaveSheets(dadosParaSalvar(from, data.cotacao)),
            Upd(from, [currentStep |-> "finalizado", currentFlow |-> "finalization"]),
            SetTimeout(<< Send(from, "text", "cotacaoSolicitada"),
                          Send(from, "list", "finalizationMenu"),
                          Ret("true") >>),
            Ret("true") >>

avancarParaProximoPasso(from, data) ==
    IF data.cotacao.tipo_seguro = "auto"
    THEN << Upd(from, [currentStep |-> "dados_veiculo"]) >> \o solicitarDadosVeiculo(from)
    ELSE << Upd(from, [currentStep |-> "resumo"]) >> \o mostrarResumo(from, data)

\* { ...session.data, cotacao: { ...session.data.cotacao, [field]: value } }
WithCotacao(data, field, value) ==
    [data EXCEPT !.cotacao = [SpreadCotacao(data.cotacao) EXCEPT ![field] = value]]

handleTipoSeguro(from, input, session) ==
    LET normalized == normalizeText(input)
        tipoSeguro ==
            IF Includes(input, "auto") \/ Includes(normalized, "auto")
               \/ Includes(normalized, "veiculo") THEN "auto"
            ELSE IF Includes(input, "residencial") \/ Includes(normalized, "casa")
               \/ Includes(normalized, "residencia") THEN "residencial"
            ELSE IF Includes(input, "vida") \/ Includes(normalized, "vida") THEN "vida"
            ELSE IF Includes(input, "empresarial") \/ Includes(normalized, "empresa")
                 THEN "empresarial"
            ELSE IF Includes(input, "outros") \/ Includes(normalized, "outros") THEN "outros"
            ELSE ""
        updatedData == WithCotacao(session.data, "tipo_seguro", tipoSeguro)
    IN IF WantsBack(input)
       THEN << Upd(from, [currentStep |-> "coleta_cpf"]) >> \o solicitarCPF(from)
       ELSE IF tipoSeguro = ""
       THEN << Send(from, "text", "tipoNaoReconhecido"), Ret("false") >>
       ELSE << Upd(from, [data |-> updatedData]) >>
            \o avancarParaProximoPasso(from, updatedData)

\* /^[a-zA-ZÀ-ÿ\s]+$/
LooksLikeName(nome) ==
    /\ nome # ""
    /\ \A i \in 1..Len(nome) :
          LET c == CharAt(nome, i) IN IsLower(c) \/ IsUpper(c) \/ IsAccented(c) \/ IsSpace(c)

handleColetaNome(from, input, session) ==
    LET nome == Trim(input)
    IN IF WantsBack(input)
       THEN << Upd(from, [currentFlow |-> "main_menu"]) >> \o sendMainMenu(from)
       ELSE IF Len(nome) < 2
       THEN << Send(from, "text", "nomeMuitoCurto"), Ret("false") >>
       ELSE IF ~LooksLikeName(nome)
       THEN << Send(from, "text", "nomeInvalido"), Ret("false") >>
       ELSE << Upd(from, [ currentStep |-> "coleta_email",
                           data |-> WithCotacao(session.data, "nome", nome) ]) >>
            \o solicitarEmail(from)

handleColetaEmail(from, input, session) ==
    LET email == ToLowerCase(Trim(input))
    IN IF WantsBack(input)
       THEN << Upd(from, [currentStep |-> "coleta_nome"]) >> \o solicitarNome(from)
       ELSE IF ~isValidEmail(email)
       THEN << Send(from, "text", "emailInvalido"), Ret("false") >>
       ELSE << Upd(from, [ currentStep |-> "continuacao",
                           data |-> WithCotacao(session.data, "email", email) ]) >>
            \o oferecerContinuacao(from)

handleContinuacao(from, input, session) ==
    LET normalized == normalizeText(input)
        optionNumber == extractOptionNumber(input)
    IN IF WantsBack(input)
       THEN << Upd(from, [currentStep |-> "coleta_email"]) >> \o solicitarEmail(from)
       ELSE IF optionNumber = "1" \/ Includes(normalized, "continuar")
               \/ Includes(normalized, "informacoes") \/ Includes(normalized, "1")
       THEN << Send(from, "text", "continuando"),
               Upd(from, [currentStep |-> "coleta_cpf"]) >> \o solicitarCPF(from)
       ELSE IF optionNumber = "2" \/ Includes(normalized, "atendente")
               \/ Includes(normalized, "corretor") \/ Includes(normalized, "2")
       THEN << Transfer(from, "Cotação - Solicitou atendente") >>
       ELSE << Send(from, "text", "continuacaoNaoReconhecida"), Ret("false") >>

handleColetaCPF(from, input, session) ==
    LET inputOriginal == Trim(input)
        cpfLimpo == OnlyDigits(inputOriginal)
    IN IF WantsBack(input)
       THEN << Upd(from, [currentStep |-> "continuacao"]) >> \o oferecerContinuacao(from)
       ELSE IF ~isValidCPF(inputOriginal)
       THEN << Send(from, "text", "cpfInvalido"), Ret("false") >>
       ELSE << Upd(from, [ currentStep |-> "tipo_seguro",
                           data |-> WithCotacao(session.data, "cpf", cpfLimpo) ]),
               Send(from, "text", "cpfConfirmado"),
               Send(from, "list", "cotacaoMenu"),
               Ret("sent") >>

handleDadosVeiculo(from, input, session) ==
    LET normalized == normalizeText(input)
        marca == IF Includes(normalized, "pular") \/ Includes(normalized, "sem marca")
                    \/ Includes(normalized, "nao sei")
                 THEN "Não informado" ELSE input
    IN IF WantsBack(input)
       THEN << Upd(from, [currentStep |-> "tipo_seguro"]),
               Send(from, "text", "queTipoDeSeguro"),
               Send(from, "list", "cotacaoMenu"),
               Ret("sent") >>
       ELSE << Upd(from, [ currentStep |-> "coleta_placa_chassi",
                           data |-> WithCotacao(session.data, "veiculo_marca", Trim(marca)) ]),
               Send(from, "text", "solicitarPlacaChassi"),
               Ret("true") >>

\* /^[A-Z]{3}[0-9]{4}$|^[A-Z]{3}[0-9][A-Z][0-9]{2}$/
IsPlaca(x) ==
    /\ Len(x) = 7
    /\ \A i \in 1..3 : IsUpper(CharAt(x, i))
    /\ IsDigit(CharAt(x, 4))
    /\ IsDigit(CharAt(x, 5)) \/ IsUpper(CharAt(x, 5))
    /\ \A i \in 6..7 : IsDigit(CharAt(x, i))

\* /^[A-HJ-NPR-Z0-9]{17}$/
IsChassi(x) ==
    /\ Len(x) = 17
    /\ \A i \in 1..17 :
          LET c == CharAt(x, i)
          IN IsDigit(c) \/ (IsUpper(c) /\ c \notin {"I", "O", "Q"})

\* handleColetaPlacaChassi going back two steps, to the type of insurance
handleColetaPlacaChassiBackTwo(from, input, session) ==
    LET inputLimpo == ToUpperCase(OnlyAlnum(input))
        data == [session.data EXCEPT !.cotacao =
                    [SpreadCotacao(session.data.cotacao) EXCEPT
                        !.veiculo_placa_chassi = inputLimpo,
                        !.tipo_identificacao =
                            IF IsPlaca(inputLimpo) THEN "placa" ELSE "chassi"]]
    IN IF Includes(input, "voltar") \/ Includes(normalizeText(input), "voltar")
          \/ isRequestingBack(input) \/ WantsBack(input)
       THEN << Upd(from, [currentStep |-> "tipo_seguro"]) >> \o solicitarDadosVeiculo(from)
       ELSE IF ~IsPlaca(inputLimpo) /\ ~IsChassi(inputLimpo)
       THEN << Send(from, "text", "placaInvalida"), Ret("false") >>
       ELSE << Upd(from, [currentStep |-> "coleta_cep_pernoite", data |-> data]),
               Send(from, "text", "solicitarCep"),
               Ret("true") >>

handleColetaPlacaChassi(from, input, session) ==
    LET inputLimpo == ToUpperCase(OnlyAlnum(input))
        data == [session.data EXCEPT !.cotacao =
                    [SpreadCotacao(session.data.cotacao) EXCEPT
                        !.veiculo_placa_chassi = inputLimpo,
                        !.tipo_identificacao =
                            IF IsPlaca(inputLimpo) THEN "placa" ELSE "chassi"]]
    IN IF Includes(input, "voltar") \/ Includes(normalizeText(input), "voltar")
          \/ isRequestingBack(input) \/ WantsBack(input)
       THEN << Upd(from, [currentStep |-> "dados_veiculo"]) >> \o solicitarDadosVeiculo(from)
       ELSE IF ~IsPlaca(inputLimpo) /\ ~IsChassi(inputLimpo)
       THEN << Send(from, "text", "placaInvalida"), Ret("false") >>
       ELSE << Upd(from, [currentStep |-> "coleta_cep_pernoite", data |-> data]),
               Send(from, "text", "solicitarCep"),
               Ret("true") >>

\* handleColetaCepPernoite keeping whatever digits the input has
handleColetaCepPernoiteLenient(from, input, session) ==
    LET cep == OnlyDigits(input)
        updatedData == WithCotacao(session.data, "cep_pernoite", cep)
    IN IF WantsBack(input)
       THEN << Upd(from, [currentStep |-> "coleta_placa_chassi"]),
               Send(from, "text", "solicitarPlacaChassi"),
               Ret("true") >>
       ELSE IF Len(cep) # 8
       THEN << Upd(from, [data |-> updatedData]), Send(from, "text", "cepInvalido"),
               Ret("false") >>
       ELSE << Upd(from, [currentStep |-> "resumo", data |-> updatedData]) >>
            \o mostrarResumo(from, updatedData)

handleColetaCepPernoite(from, input, session) ==
    LET cep == OnlyDigits(input)
        updatedData == WithCotacao(session.data, "cep_pernoite", cep)
    IN IF WantsBack(input)
       THEN << Upd(from, [currentStep |-> "coleta_placa_chassi"]),
               Send(from, "text", "solicitarPlacaChassi"),
               Ret("true") >>
       ELSE IF Len(cep) # 8
       THEN << Send(from, "text", "cepInvalido"), Ret("false") >>
       ELSE << Upd(from, [currentStep |-> "resumo", data |-> updatedData]) >>
            \o mostrarResumo(from, updatedData)

handleResumo(from, input, session) == mostrarResumo(from, session.data)

(***************************************************************************)
(* WhatsAppService (src/backend/src/services/whatsappService.js).          *)
(***************************************************************************)
\* process.env.BROKER_WHATSAPP || '5519995910737'
defaultBrokerNumber == "5519995910737"

StartsWith(s, prefix) == Len(s) >= Len(prefix) /\ SubSeq(s, 1, Len(prefix)) = prefix

\* Utils.formatPhone
formatPhone(phone) ==
    LET numbers == OnlyDigits(phone)
    IN IF phone = "" THEN ""
       ELSE IF Len(numbers) = 11 /\ StartsWith(numbers, "11") THEN "55" \o numbers \o "@c.us"
       ELSE IF Len(numbers) = 10 THEN "5511" \o numbers \o "@c.us"
       ELSE IF StartsWith(numbers, "55") THEN numbers \o "@c.us"
       ELSE phone

\* an inbound message of the transport; rowId is the id of the selected row,
\* Undef when the message has no list_response
Message(id, from, body, type, rowId) ==
    [ id |-> id, from |-> from, body |-> body, type |-> type,
      list_response |-> [id |-> rowId] ]

processListResponse(message) ==
    IF message.type = "list_response" /\ message.list_response.id # Undef
    THEN message.list_response.id
    ELSE IF message.type = "button_response" /\ message.list_response.id # Undef
    THEN message.list_response.id
    ELSE IF message.body # ""
            /\ extractOptionNumber(message.body) \notin {Null, "0"}
    THEN "option_" \o extractOptionNumber(message.body)
    ELSE Null

extractMessageInfo(message) ==
    [ id |-> message.id, from |-> message.from, body |-> message.body,
      type |-> message.type, listResponse |-> processListResponse(message) ]

\* notifyBrokerTransfer: one text to the broker's number
Notify(clientName, clientContact, reason) ==
    [ op |-> "send", to |-> defaultBrokerNumber, kind |-> "notify",
      tag |-> [cliente |-> clientName, contato |-> clientContact, motivo |-> reason] ]

(***************************************************************************)
(* MainFlow (src/unnamed/part_007).                                        *)
(***************************************************************************)
flows ==
    { "welcome", "welcome_response", "main_menu", "cotacao", "renovacao", "sinistro",
      "seguradoras", "seguradora_info", "atendimento", "finalization" }

\* src/data/seguradoras.json: the partner insurers (id, nome)
seguradoras ==
    << [id |-> "porto", nome |-> "Porto Seguro"],
       [id |-> "allianz", nome |-> "Allianz"] >>

sendWelcome(from) ==
    << Upd(from, [currentFlow |-> "welcome_response", currentStep |-> "aguardando_escolha"]),
       Send(from, "list", "welcomeMenu"),
       Ret("sent") >>

DefaultReason == "Solicitação de atendimento"

\* handleGlobalCommands testing the greeting ahead of the reset command
handleGlobalCommandsGreetingFirst(from, body) ==
    LET normalizedBody == normalizeText(body)
    IN IF isGreeting(normalizedBody)
       THEN << Upd(from, [currentFlow |-> "welcome", currentStep |-> "inicio"]) >>
            \o sendWelcome(from)
       ELSE IF isMenuCommand(normalizedBody)
       THEN << EnableBot,
               Upd(from, [ currentFlow |-> "welcome", currentStep |-> "inicio",
                           data |-> EmptyData ]) >>
            \o sendWelcome(from)
       ELSE IF isFarewell(normalizedBody)
       THEN << Send(from, "text", "despedida"), Ret("true") >>
       ELSE IF isRequestingHuman(normalizedBody)
       THEN << Transfer(from, DefaultReason) >>
       ELSE << >>

\* handleGlobalCommands resetting the session without enabling the bot
handleGlobalCommandsStayDisabled(from, body) ==
    LET normalizedBody == normalizeText(body)
    IN IF isMenuCommand(normalizedBody)
       THEN << Upd(from, [ currentFlow |-> "welcome", currentStep |-> "inicio",
                           data |-> EmptyData ]) >>
            \o sendWelcome(from)
       ELSE IF isGreeting(normalizedBody)
       THEN << Upd(from, [currentFlow |-> "welcome", currentStep |-> "inicio"]) >>
            \o sendWelcome(from)
       ELSE IF isFarewell(normalizedBody)
       THEN << Send(from, "text", "despedida"), Ret("true") >>
       ELSE IF isRequestingHuman(normalizedBody)
       THEN << Transfer(from, DefaultReason) >>
       ELSE << >>

\* handleGlobalCommands taking a farewell as handled without answering it
handleGlobalCommandsSilentFarewell(from, body) ==
    LET normalizedBody == normalizeText(body)
    IN IF isMenuCommand(normalizedBody)
       THEN << EnableBot,
               Upd(from, [ currentFlow |-> "welcome", currentStep |-> "inicio",
                           data |-> EmptyData ]) >>
            \o sendWelcome(from)
       ELSE IF isGreeting(normalizedBody)
       THEN << Upd(from, [currentFlow |-> "welcome", currentStep |-> "inicio"]) >>
            \o sendWelcome(from)
       ELSE IF isFarewell(normalizedBody)
       THEN << Ret("true") >>
       ELSE IF isRequestingHuman(normalizedBody)
       THEN << Transfer(from, DefaultReason) >>
       ELSE << >>

handleGlobalCommands(from, body) ==
    LET normalizedBody == normalizeText(body)
    IN IF isMenuCommand(normalizedBody)
       THEN << EnableBot,
               Upd(from, [ currentFlow |-> "welcome", currentStep |-> "inicio",
                           data |-> EmptyData ]) >>
            \o sendWelcome(from)
       ELSE IF isGreeting(normalizedBody)
       THEN << Upd(from, [currentFlow |-> "welcome", currentStep |-> "inicio"]) >>
            \o sendWelcome(from)
       ELSE IF isFarewell(normalizedBody)
       THEN << Send(from, "text", "despedida"), Ret("true") >>
       ELSE IF isRequestingHuman(normalizedBody)
       THEN << Transfer(from, DefaultReason) >>
       ELSE << >>

handleWelcome(from, input, session) == sendWelcome(from)

handleWelcomeResponse(from, input, session) ==
    LET normalized == normalizeText(input)
        optionNumber == extractOptionNumber(input)
    IN IF Includes(input, "option_1") \/ Includes(input, "cliente")
          \/ Includes(normalized, "cliente") \/ Includes(normalized, "ja sou cliente")
          \/ optionNumber = "1"
       THEN << Upd(from, [ currentFlow |-> "main_menu", currentStep |-> "menu_principal",
                           data |-> [session.data EXCEPT !.tipo_usuario = "cliente"] ]),
               Send(from, "text", "existingClientMessage") >>
            \o sendMainMenu(from)
       ELSE IF Includes(input, "option_2") \/ Includes(input, "cotacao")
          \/ Includes(normalized, "cotar") \/ Includes(normalized, "quero cotar")
          \/ Includes(normalized, "cotacao") \/ optionNumber = "2"
       THEN start(from)
       ELSE << Send(from, "text", "opcaoNaoReconhecida"), Ret("false") >>

sendRenovacaoMenu(from) == << Send(from, "list", "renovacaoMenu"), Ret("sent") >>
sendSinistroMenu(from) == << Send(from, "list", "sinistroMenu"), Ret("sent") >>

sendSeguradorasMenu(from) ==
    << Upd(from, [currentFlow |-> "seguradoras", currentStep |-> "selecao_seguradora"]),
       Send(from, "list", "seguradorasMenu"),
       Ret("sent") >>

handleInvalidOption(from) == << Send(from, "text", "opcaoInvalida"), Ret("false") >>

handleMainMenu(from, input, session) ==
    LET normalized == normalizeText(input)
        n == extractOptionNumber(input)
    IN IF isRequestingBack(normalized) THEN sendWelcome(from)
       ELSE IF Includes(input, "option_1") \/ Includes(input, "nova_cotacao")
          \/ Includes(normalized, "nova cotacao") \/ Includes(normalized, "cotacao")
          \/ Includes(normalized, "quero uma nova cotacao") \/ n = "1"
       THEN start(from)
       ELSE IF Includes(input, "option_2") \/ Includes(input, "renovacao")
          \/ Includes(normalized, "renovacao")
          \/ Includes(normalized, "informacoes sobre renovacao") \/ n = "2"
       THEN << Upd(from, [currentFlow |-> "renovacao"]) >> \o sendRenovacaoMenu(from)
       ELSE IF Includes(input, "option_3") \/ Includes(input, "sinistro")
          \/ Includes(normalized, "sinistro") \/ Includes(normalized, "comunicar sinistro")
          \/ n = "3"
       THEN << Upd(from, [currentFlow |-> "sinistro"]) >> \o sendSinistroMenu(from)
       ELSE IF Includes(input, "option_4") \/ Includes(input, "segunda_via")
          \/ Includes(normalized, "segunda via") \/ Includes(normalized, "2a via")
          \/ Includes(normalized, "documentos") \/ Includes(normalized, "boleto") \/ n = "4"
       THEN << Send(from, "text", "segundaVia"),
               Transfer(from, "2ª Via de Documento/Boleto") >>
       ELSE IF Includes(input, "option_5") \/ Includes(input, "seguradoras")
          \/ Includes(normalized, "seguradora")
          \/ Includes(normalized, "contatos das seguradoras") \/ n = "5"
       THEN << Upd(from, [currentFlow |-> "seguradoras"]) >> \o sendSeguradorasMenu(from)
       ELSE IF Includes(input, "option_6") \/ Includes(input, "atendimento")
          \/ Includes(normalized, "atendente") \/ Includes(normalized, "falar com atendente")
          \/ n = "6"
       THEN << Transfer(from, "Solicitação direta") >>
       ELSE handleInvalidOption(from)

handleRenovacao(from, input, session) ==
    IF WantsBack(input)
    THEN << Upd(from, [currentFlow |-> "main_menu"]) >> \o sendMainMenu(from)
    ELSE << Transfer(from, "Renovação de Apólice") >>

\* the digits of the first /option_(\d+)/ match, "" when the input has none
OptionMatch(input) ==
    LET at == { i \in 1..(Len(input) - 7) :
                  /\ SubSeq(input, i, i + 6) = "option_"
                  /\ IsDigit(CharAt(input, i + 7)) }
    IN IF at = {} THEN ""
       ELSE LET i == CHOOSE x \in at : \A y \in at : x <= y
            IN LeadingDigits(SubSeq(input, i + 7, Len(input)))

RECURSIVE Numeral(_)
\* String(n) of a small natural number
Numeral(n) == IF n < 10 THEN CharAt(DigitChars, n + 1)
              ELSE Numeral(n \div 10) \o CharAt(DigitChars, (n % 10) + 1)

\* the insurer the input selects (its index in seguradoras), 0 when none
SeguradoraSelecionada(input) ==
    LET normalized == normalizeText(input)
        digits == OptionMatch(input)
        byOption == { i \in 1..Len(seguradoras) : ParseInt(digits) = Numeral(i) }
        byName == { i \in 1..Len(seguradoras) :
                      \/ Includes(input, seguradoras[i].id)
                      \/ Includes(normalized, ToLowerCase(seguradoras[i].nome))
                      \/ Includes(normalized, seguradoras[i].id) }
        found == IF digits # "" THEN byOption ELSE byName
    IN IF found = {} THEN 0 ELSE CHOOSE i \in found : \A j \in found : i <= j

\* the callback handleSinistro and handleSeguradoras defer by FinalizationDelay
FinalizationCallback(from) ==
    << Upd(from, [currentFlow |-> "finalization", currentStep |-> "menu_finalizacao"]),
       Send(from, "list", "finalizationMenu"),
       Ret("true") >>

handleSinistro(from, input, session) ==
    IF WantsBack(input)
    THEN << Upd(from, [currentFlow |-> "main_menu"]) >> \o sendMainMenu(from)
    ELSE IF SeguradoraSelecionada(input) # 0
    THEN << Send(from, "text", "seguradoraInfo"),
            SetTimeout(FinalizationCallback(from)),
            Ret("true") >>
    ELSE << Send(from, "text", "seguradoraNaoReconhecida") >> \o sendSinistroMenu(from)

handleSeguradoras(from, input, session) ==
    IF WantsBack(input)
    THEN << Upd(from, [currentFlow |-> "main_menu"]) >> \o sendMainMenu(from)
    ELSE IF SeguradoraSelecionada(input) # 0
    THEN << Send(from, "text", "seguradoraInfo"),
            SetTimeout(FinalizationCallback(from)),
            Ret("true") >>
    ELSE << Send(from, "text", "opcaoNaoReconhecida") >> \o sendSeguradorasMenu(from)

handleSeguradoraInfo(from, input, session) ==
    << Upd(from, [currentFlow |-> "seguradoras"]) >> \o sendSeguradorasMenu(from)

handleAtendimento(from, input, session) == << Transfer(from, DefaultReason) >>

handleUnknownFlow(from) ==
    << Upd(from, [currentFlow |-> "welcome", currentStep |-> "inicio", data |-> EmptyData]),
       Send(from, "text", "reiniciando") >>
    \o sendWelcome(from)

handleError(from) == << Send(from, "text", "algoDeuErrado"), Ret("false") >>

handleFinalization(from, input, session) ==
    LET normalized == normalizeText(input)
        n == extractOptionNumber(input)
    IN IF Includes(input, "menu") \/ Includes(input, "option_1")
          \/ Includes(normalized, "voltar") \/ Includes(normalized, "menu principal")
          \/ n = "1"
       THEN << Upd(from, [currentFlow |-> "main_menu"]) >> \o sendMainMenu(from)
       ELSE IF Includes(input, "encerrar") \/ Includes(input, "option_2")
          \/ Includes(normalized, "encerrar") \/ Includes(normalized, "tchau") \/ n = "2"
       THEN << Send(from, "text", "conversaEncerrada"),
               Upd(from, [ currentFlow |-> "welcome", currentStep |-> "inicio",
                           data |-> EmptyData ]),
               Ret("true") >>
       ELSE << Send(from, "text", "opcaoNaoReconhecida"),
               Send(from, "list", "finalizationMenu"),
               Ret("sent") >>

(***************************************************************************)
(* CotacaoFlow, the steps that call back into MainFlow, and processInput.  *)
(***************************************************************************)
handleFinalizado(from, input, session) ==
    << Upd(from, [currentFlow |-> "finalization"]) >>
    \o handleFinalization(from, input, session)

handleDadosIniciais(from, input, session) ==
    IF session.data.cotacao = NoCotacao THEN << Throw("cotacao is undefined") >>
    ELSE IF OrEmpty(session.data.cotacao.nome) = "" THEN handleColetaNome(from, input, session)
    ELSE IF OrEmpty(session.data.cotacao.email) = "" THEN handleColetaEmail(from, input, session)
    ELSE oferecerContinuacao(from)

StepHandler(step, from, input, session) ==
    CASE step = "tipo_seguro" -> handleTipoSeguro(from, input, session)
      [] step = "dados_iniciais" -> handleDadosIniciais(from, input, session)
      [] step = "coleta_nome" -> handleColetaNome(from, input, session)
      [] step = "coleta_email" -> handleColetaEmail(from, input, session)
      [] step = "continuacao" -> handleContinuacao(from, input, session)
      [] step = "coleta_cpf" -> handleColetaCPF(from, input, session)
      [] step = "dados_veiculo" -> handleDadosVeiculo(from, input, session)
      [] step = "coleta_placa_chassi" -> handleColetaPlacaChassi(from, input, session)
      [] step = "coleta_cep_pernoite" -> handleColetaCepPernoite(from, input, session)
      [] step = "resumo" -> handleResumo(from, input, session)
      [] step = "finalizado" -> handleFinalizado(from, input, session)

\* processInput(from, input) once it has read the session
processInput(from, input, session) ==
    LET currentStep == IF session.currentStep = "" THEN "coleta_nome" ELSE session.currentStep
    IN TryCatch(
          IF currentStep \in steps
          THEN StepHandler(currentStep, from, input, session)
          ELSE << Send(from, "text", "passoNaoEncontrado") >> \o start(from),
          << Send(from, "text", "erroTecnico"),
             Upd(from, [currentFlow |-> "main_menu"]) >> \o sendMainMenu(from))

(***************************************************************************)
(* MainFlow.transferToHuman and MainFlow.processMessage.                   *)
(***************************************************************************)
\* from.replace('@c.us', '')
WithoutSuffix(from) ==
    LET at == { i \in 1..(Len(from) - 4) : SubSeq(from, i, i + 4) = "@c.us" }
    IN IF at = {} THEN from
       ELSE LET i == CHOOSE x \in at : \A y \in at : x <= y
            IN SubSeq(from, 1, i - 1) \o SubSeq(from, i + 5, Len(from))

\* transferToHuman acknowledging without having notified the operator
transferToHumanUnnotified(from, reason, session) ==
    << Send(from, "text", "transferindo"),
       DisableBot(TransferMinutes),
       UpdTransferred(from, reason),
       Ret("true") >>

\* transferToHuman(from, reason) once it has read the session
transferToHuman(from, reason, session) ==
    LET cotacao == session.data.cotacao
        clientName == IF cotacao # NoCotacao /\ OrEmpty(cotacao.nome) # ""
                      THEN cotacao.nome ELSE "Não informado"
        clientEmail == IF cotacao # NoCotacao THEN OrEmpty(cotacao.email) ELSE ""
        clientContact == IF clientEmail # "" THEN clientEmail ELSE WithoutSuffix(from)
    IN << Notify(clientName, clientContact, reason),
          Send(from, "text", "transferindo"),
          DisableBot(TransferMinutes),
          UpdTransferred(from, reason),
          Ret("true") >>

\* this.flows.get(currentFlow)(from, userInput, session)
FlowHandler(currentFlow, from, input, session, fresh) ==
    CASE currentFlow = "welcome" -> handleWelcome(from, input, session)
      [] currentFlow = "welcome_response" -> handleWelcomeResponse(from, input, session)
      [] currentFlow = "main_menu" -> handleMainMenu(from, input, session)
      [] currentFlow = "cotacao" -> << GetSession(from) >> \o processInput(from, input, fresh)
      [] currentFlow = "renovacao" -> handleRenovacao(from, input, session)
      [] currentFlow = "sinistro" -> handleSinistro(from, input, session)
      [] currentFlow = "seguradoras" -> handleSeguradoras(from, input, session)
      [] currentFlow = "seguradora_info" -> handleSeguradoraInfo(from, input, session)
      [] currentFlow = "atendimento" -> handleAtendimento(from, input, session)
      [] currentFlow = "finalization" -> handleFinalization(from, input, session)

\* the session getUserSession(phone) returns in state st
SessionOf(st, phone) == getUserSession(st.ss, phone, st.now).sessions[phone]

\* if (await this.handleGlobalCommands(from, body)) return true, and what follows
HandledOr(handled, info) ==
    IF handled = << >> THEN << Dispatch(info) >>
    ELSE IF handled[Len(handled)].op = "ret"
    THEN Body(handled) \o << IfHandled(handled[Len(handled)].val, info) >>
    ELSE handled

Intercept(info) == HandledOr(handleGlobalCommands(info.from, info.body), info)

\* processMessage testing whether the bot is active before it marks and counts
RouteOpsCheckFirst(st, info) ==
    IF ~st.on /\ ~isMenuCommand(info.body) THEN << Ret("false") >>
    ELSE << Mark(info.from, info.id), Count >> \o Intercept(info)

\* processMessage from the return of markAsRead to its next await
RouteOps(st, info) ==
    << Mark(info.from, info.id), Count >>
    \o IF ~st.on /\ ~isMenuCommand(info.body) THEN << Ret("false") >>
       ELSE Intercept(info)

\* processMessage from its read of the session to its await of sendTyping
DispatchOps(st, info) ==
    << GetSession(info.from),
       Await("sendTyping"),
       Flow(SessionOf(st, info.from).currentFlow, info, << >>) >>

\* processMessage from the return of sendTyping on
FlowOps(st, o) ==
    LET from == o.info.from
        userInput == IF o.info.listResponse # Null THEN o.info.listResponse ELSE o.info.body
        session == IF o.session # << >> THEN o.session[1]
                   ELSE IF from \in DOMAIN st.ss.sessions THEN st.ss.sessions[from]
                   ELSE NewSession(st.now)
    IN TryCatch(IF o.currentFlow \in flows
                THEN FlowHandler(o.currentFlow, from, userInput, session, SessionOf(st, from))
                ELSE handleUnknownFlow(from),
                handleError(from))

(***************************************************************************)
(* Running a continuation in state st up to its next await of I/O.         *)
(***************************************************************************)
\* the operation o of a continuation followed by rest: the state after it, what
\* is left to run, and whether the continuation runs on ("run"), is suspended
\* on I/O ("await") or has returned ("done")
Exec(st, o, rest) ==
    CASE o.op = "send" ->
           [ st |-> [st EXCEPT !.out = Append(@, [ to |-> formatPhone(o.to),
                                                   kind |-> o.kind, tag |-> o.tag ])],
             k |-> rest, then |-> "await" ]
      [] o.op = "await" -> [st |-> st, k |-> rest, then |-> "await"]
      [] o.op = "ret" ->
           [ st |-> [st EXCEPT !.ret = IF o.val = "sent" THEN st.sent ELSE o.val],
             k |-> << >>, then |-> "done" ]
      [] o.op = "ifHandled" ->
           IF (IF o.val = "sent" THEN st.sent ELSE o.val) = "true"
           THEN [st |-> [st EXCEPT !.ret = "true"], k |-> << >>, then |-> "done"]
           ELSE [st |-> st, k |-> << Dispatch(o.info) >> \o rest, then |-> "run"]
      [] o.op = "dispatch" -> [st |-> st, k |-> DispatchOps(st, o.info), then |-> "run"]
      [] o.op = "upd" ->
           [ st |-> [st EXCEPT !.ss = updateUserSession(st.ss, o.phone, o.updates, st.now)],
             k |-> rest, then |-> "run" ]
      [] o.op = "updTransferred" ->
           [ st |-> [st EXCEPT !.ss = updateUserSession(st.ss, o.phone,
                        [ currentFlow |-> "atendimento", currentStep |-> "transferido",
                          data |-> [EmptyData EXCEPT !.transferred_at = Numeral(st.now),
                                                     !.reason = o.reason] ], st.now)],
             k |-> rest, then |-> "run" ]
      [] o.op = "getSession" ->
           [ st |-> [st EXCEPT !.ss = getUserSession(st.ss, o.phone, st.now)],
             k |-> rest, then |-> "run" ]
      [] o.op = "mark" ->
           [ st |-> [st EXCEPT !.c = markMessageProcessed(st.c, o.from, o.id, st.now),
                               !.marked = MapSet(@, generateMessageKey(o.from, o.id),
                                                 [at |-> st.now, ttl |-> defaultTTL])],
             k |-> rest, then |-> "run" ]
      [] o.op = "count" ->
           [st |-> [st EXCEPT !.ss = incrementMessageCount(st.ss)], k |-> rest, then |-> "run"]
      [] o.op = "enable" ->
           [st |-> [st EXCEPT !.on = TRUE, !.disabledUntil = 0], k |-> rest, then |-> "run"]
      [] o.op = "disable" ->
           [ st |-> [st EXCEPT !.on = FALSE,
                               !.botTimers = @ \cup {st.now + o.minutes * MsPerMinute},
                               !.disabledUntil = st.now + o.minutes * MsPerMinute],
             k |-> rest, then |-> "run" ]
      [] o.op = "csv" ->
           [st |-> [st EXCEPT !.leads = Append(@, o.row)], k |-> rest, then |-> "run"]
      [] o.op = "sheets" ->
           IF ~st.sheets.ready THEN [st |-> st, k |-> rest, then |-> "run"]
           ELSE [ st |-> [st EXCEPT !.sheets.rows = Append(@, o.row)],
                  k |-> rest, then |-> "await" ]
      [] o.op = "timeout" ->
           [ st |-> [st EXCEPT !.deferred =
                        Append(@, [at |-> st.now + FinalizationDelay, k |-> o.callback])],
             k |-> rest, then |-> "run" ]
      [] o.op = "transfer" ->
           [ st |-> st,
             k |-> << GetSession(o.from) >>
                   \o transferToHuman(o.from, o.reason, SessionOf(st, o.from)),
             then |-> "run" ]
      [] o.op = "route" -> [st |-> st, k |-> RouteOps(st, o.info), then |-> "run"]
      [] o.op = "flow" -> [st |-> st, k |-> FlowOps(st, o), then |-> "run"]

RECURSIVE RunOn(_)
\* the result of running k in st: the state, what is left to run, whether it
\* returned
RunOn(e) ==
    CASE e.then # "run" -> [st |-> e.st, k |-> e.k, done |-> e.then = "done"]
      [] e.then = "run" /\ e.k = << >> ->
           [st |-> [e.st EXCEPT !.ret = Undef], k |-> << >>, done |-> TRUE]
      [] OTHER -> RunOn(Exec(e.st, Head(e.k), Tail(e.k)))

Run(st, k) == RunOn([st |-> st, k |-> k, then |-> "run"])

RECURSIVE RunRest(_)
RunRest(r) == IF r.done THEN r.st ELSE RunRest(Run(r.st, r.k))

\* the continuation run to its end, every await completing at once
RunAll(st, k) == RunRest(Run(st, k))

(***************************************************************************)
(* The state as one record, and the state after construction.              *)
(***************************************************************************)
Cur ==
    [ now |-> now, on |-> chatbot_is_on, ss |-> [sessions |-> sessions, stats |-> stats],
      botTimers |-> botTimers, c |-> [cache |-> cache, cacheTimers |-> cacheTimers],
      marked |-> marked, disabledUntil |-> disabledUntil,
      deferred |-> deferred, leads |-> leads, sheets |-> sheets,
      out |-> << >>, sent |-> "true", ret |-> Undef ]

Commit(st) ==
    /\ chatbot_is_on' = st.on
    /\ sessions' = st.ss.sessions
    /\ stats' = st.ss.stats
    /\ botTimers' = st.botTimers
    /\ cache' = st.c.cache
    /\ cacheTimers' = st.c.cacheTimers
    /\ marked' = st.marked
    /\ disabledUntil' = st.disabledUntil
    /\ users' = users \cup DOMAIN st.ss.sessions
    /\ deferred' = st.deferred
    /\ leads' = st.leads
    /\ sheets' = st.sheets
    /\ out' = st.out

\* StateManager.loadState without a state file, an empty CacheSystem
Boot ==
    [ now |-> 0, on |-> TRUE,
      ss |-> [ sessions |-> EmptyMap,
               stats |-> [total_messages |-> 0, total_users |-> 0, last_reset |-> 0] ],
      botTimers |-> {}, c |-> [cache |-> EmptyMap, cacheTimers |-> {}],
      marked |-> EmptyMap, disabledUntil |-> 0,
      deferred |-> << >>, leads |-> << >>, sheets |-> [ready |-> FALSE, rows |-> << >>],
      out |-> << >>, sent |-> "true", ret |-> Undef ]

\* processMessage(message) run alone from its call to its return
SeqProcess(st, message) ==
    LET info == extractMessageInfo(message)
        h == isMessageProcessed(st.c, info.from, info.id, st.now)
    IN IF h.has THEN st
       ELSE RunAll([st EXCEPT !.c = h.c], << Await("markAsRead"), Route(info) >>)

RECURSIVE SeqRun(_, _)
\* the messages processed one after the other (the state is worked out before
\* the next message is taken)
SeqRun(st, messages) ==
    CASE messages = << >> -> st
      [] st.now < 0 -> st
      [] Len(messages) = 1 -> SeqProcess(st, messages[1])
      [] OTHER -> SeqRun(SeqRun(st, FirstHalf(messages)), SecondHalf(messages))

RECURSIVE RunCallbacks(_, _)
\* the pending setTimeout callbacks run one after the other, each at its time
RunCallbacks(st, pending) ==
    IF pending = << >> THEN st
    ELSE RunCallbacks(RunAll([st EXCEPT !.now = Head(pending).at], Head(pending).k),
                      Tail(pending))

\* defaultTTL later with no further event: the callbacks have run, the cache
\* entries have expired and their timers have removed them
Settle(st) ==
    IF st.c.cacheTimers = {} /\ st.deferred = << >> THEN st
    ELSE [ RunCallbacks([st EXCEPT !.deferred = << >>], st.deferred)
             EXCEPT !.now = st.now + defaultTTL,
                    !.c = [cache |-> EmptyMap, cacheTimers |-> {}],
                    !.out = << >>, !.ret = Undef ]

(***************************************************************************)
(* Persistence (src/unnamed/part_003, lines 23-61): state.json holds       *)
(* JSON.stringify(this.state).  A JSON text is kept as its parse tree, the *)
(* scalars as their literals.                                              *)
(***************************************************************************)
JNumber(n) == [t |-> "number", text |-> Numeral(n)]
JString(s) == [t |-> "string", text |-> "\"" \o s \o "\""]
JBoolean(b) == [t |-> "boolean", text |-> IF b THEN "true" ELSE "false"]
JNull == [t |-> "null", text |-> "null"]
JObject(members) == [t |-> "object", members |-> members]
JArray(items) == [t |-> "array", items |-> items]

\* a string, or null
JValue(v) == IF v = Null THEN JNull ELSE JString(v)

\* session.data.cotacao: a property whose value is undefined is left out
StringifyCotacao(cotacao) ==
    JObject([f \in { g \in DOMAIN cotacao : cotacao[g] # Undef } |-> JValue(cotacao[f])])

\* session.data; transferred_at is a number
StringifyData(data) ==
    LET scalars == { f \in {"tipo_usuario", "transferred_at", "reason"} : data[f] # Undef }
        keys == scalars \cup (IF data.cotacao = NoCotacao THEN {} ELSE {"cotacao"})
    IN JObject([f \in keys |->
                  CASE f = "cotacao" -> StringifyCotacao(data.cotacao)
                    [] f = "transferred_at" -> [t |-> "number", text |-> data[f]]
                    [] OTHER -> JValue(data[f])])

StringifyHistory(history) ==
    JArray([i \in 1..Len(history) |->
              JObject([ from |-> JString(history[i].from), to |-> JString(history[i].to),
                        timestamp |-> JNumber(history[i].timestamp) ])])

\* a session written without its history
StringifySessionWithoutHistory(phone, session) ==
    JObject([ phone |-> JString(phone),
              currentFlow |-> JString(session.currentFlow),
              currentStep |-> JString(session.currentStep),
              data |-> StringifyData(session.data),
              history |-> JArray(<< >>),
              createdAt |-> JNumber(session.createdAt),
              lastActivity |-> JNumber(session.lastActivity) ])

StringifySession(phone, session) ==
    JObject([ phone |-> JString(phone),
              currentFlow |-> JString(session.currentFlow),
              currentStep |-> JString(session.currentStep),
              data |-> StringifyData(session.data),
              history |-> StringifyHistory(session.history),
              createdAt |-> JNumber(session.createdAt),
              lastActivity |-> JNumber(session.lastActivity) ])

\* this.state.stats (no member when it is undefined: s.stats has no field)
StringifyStats(counters) ==
    IF DOMAIN counters = {} THEN EmptyMap
    ELSE [ stats |-> JObject([ total_messages |-> JNumber(counters.total_messages),
                               total_users |-> JNumber(counters.total_users),
                               last_reset |-> JNumber(counters.last_reset) ]) ]

\* JSON.stringify(this.state), bot_start_time left out (only getStats reads it)
Stringify(on, s) ==
    JObject([ chatbot_is_on |-> JBoolean(on),
              sessions |-> JObject([phone \in DOMAIN s.sessions |->
                                      StringifySession(phone, s.sessions[phone])]) ]
            @@ StringifyStats(s.stats))

\* saveState: what state.json holds afterwards (<< >> while there is no file)
saveState(on, s) == << Stringify(on, s) >>

RECURSIVE ParseNat(_)
\* the number a decimal literal denotes
ParseNat(digits) ==
    IF Len(digits) <= 1 THEN IndexOf(digits, DigitChars) - 1
    ELSE ParseNat(FirstHalf(digits)) * 10 ^ Len(SecondHalf(digits))
         + ParseNat(SecondHalf(digits))

ParseNumber(j) == ParseNat(j.text)
ParseString(j) == SubSeq(j.text, 2, Len(j.text) - 1)
ParseBoolean(j) == j.text = "true"
ParseValue(j) == IF j.t = "null" THEN Null ELSE ParseString(j)

\* the property key of a parsed object, undefined when the text has none
ParseCotacao(j) ==
    [f \in DOMAIN EmptyCotacao |->
        IF f \in DOMAIN j.members THEN ParseValue(j.members[f]) ELSE Undef]

ParseData(j) ==
    [ tipo_usuario |-> IF "tipo_usuario" \in DOMAIN j.members
                       THEN ParseValue(j.members.tipo_usuario) ELSE Undef,
      cotacao |-> IF "cotacao" \in DOMAIN j.members
                  THEN ParseCotacao(j.members.cotacao) ELSE NoCotacao,
      transferred_at |-> IF "transferred_at" \in DOMAIN j.members
                         THEN Numeral(ParseNumber(j.members.transferred_at)) ELSE Undef,
      reason |-> IF "reason" \in DOMAIN j.members
                 THEN ParseValue(j.members.reason) ELSE Undef ]

ParseHistory(j) ==
    [i \in 1..Len(j.items) |->
        [ from |-> ParseString(j.items[i].members.from),
          to |-> ParseString(j.items[i].members.to),
          timestamp |-> ParseNumber(j.items[i].members.timestamp) ]]

ParseSession(j) ==
    [ currentFlow |-> ParseString(j.members.currentFlow),
      currentStep |-> ParseString(j.members.currentStep),
      data |-> ParseData(j.members.data),
      history |-> ParseHistory(j.members.history),
      createdAt |-> ParseNumber(j.members.createdAt),
      lastActivity |-> ParseNumber(j.members.lastActivity) ]

\* the properties of a parsed value (null and the scalars have none)
Members(j) == IF j.t = "object" THEN j.members ELSE EmptyMap

\* JSON.parse(data): the flag as isBotActive reads it (=== true), and the
\* record s = [sessions, stats]; stats has no field when the text has no
\* stats, and sessions is read only when the text has one (LacksSessions)
Parse(j) ==
    [ on |-> "chatbot_is_on" \in DOMAIN Members(j) /\ ParseBoolean(Members(j).chatbot_is_on),
      s |-> [ sessions |-> IF "sessions" \in DOMAIN Members(j)
                           THEN [phone \in DOMAIN j.members.sessions.members |->
                                   ParseSession(j.members.sessions.members[phone])]
                           ELSE EmptyMap,
              stats |-> IF "stats" \in DOMAIN Members(j)
                        THEN [ total_messages |->
                                   ParseNumber(j.members.stats.members.total_messages),
                               total_users |-> ParseNumber(j.members.stats.members.total_users),
                               last_reset |-> ParseNumber(j.members.stats.members.last_reset) ]
                        ELSE EmptyMap ] ]

\* a text JSON.parse rejects (a write that was cut short)
Corrupt == [t |-> "invalid", text |-> "{ \"chatbot_is_on\": fal"]

\* the file exists and JSON.parse accepts it
Loadable(file) == file # << >> /\ file[1].t # "invalid"

\* loadState returned a value whose sessions is undefined
LacksSessions(file) == Loadable(file) /\ "sessions" \notin DOMAIN Members(file[1])

\* loadState at time t: the file's state as parsed, the default state when
\* there is no file or JSON.parse throws
loadState(file, t) ==
    IF ~Loadable(file)
    THEN [ on |-> TRUE,
           s |-> [ sessions |-> EmptyMap,
                   stats |-> [total_messages |-> 0, total_users |-> 0, last_reset |-> t] ] ]
    ELSE Parse(file[1])

cleanInactiveSessions(s, maxInactiveHours, t) ==
    [s EXCEPT !.sessions =
        [phone \in { p \in DOMAIN s.sessions :
                       ~(s.sessions[p].lastActivity < t - maxInactiveHours * 60 * MsPerMinute) }
            |-> s.sessions[phone]]]

(***************************************************************************)
(* WhatsAppService (src/backend/src/services/whatsappService.js).  A       *)
(* request is a call of sendText or sendListMessage: its submission number *)
(* seq, its arguments (a text request has the menu NoMenu), withTyping and *)
(* formattedTo, Utils.formatPhone(to), worked out when the call is made.   *)
(* The service w holds the instance's fields, the calls suspended on the   *)
(* typing indicator (awaiting, each with who awaits it: the "caller" or    *)
(* the "queue" flush), the call the flush awaits (pending, 0 when none),   *)
(* the calls made on the client in their order (wire, ok when the client   *)
(* did not throw), what the calls returned to their callers, and, as       *)
(* history, the requests that were ever queued.                            *)
(***************************************************************************)
NoMenu == [title |-> "", description |-> "", sections |-> << >>]

\* new WhatsAppService()
Constructed ==
    [ isReady |-> FALSE, messageQueue |-> << >>, processingQueue |-> FALSE,
      pending |-> 0, awaiting |-> << >>, wire |-> << >>, returned |-> << >>,
      submitted |-> 0, queued |-> {}, exited |-> FALSE ]

\* the service after setClient(client) with nothing queued
Connected == [Constructed EXCEPT !.isReady = TRUE]

isServiceReady(w) == w.isReady

validateMenuConfig(menuConfig) ==
    /\ menuConfig.title # ""
    /\ \A k \in 1..Len(menuConfig.sections) : Len(menuConfig.sections[k].rows) > 0

\* the closing line of convertMenuToText, its leading emoji left out
OptionHint == "*Digite o número da opção desejada.*"

\* one row of a section as convertMenuToText writes it
RowText(row, rowIndex) ==
    Numeral(rowIndex + 1) \o ". " \o row.title
    \o (IF row.description # "" THEN " - " \o row.description ELSE "") \o "\n"

convertMenuToText(menuConfig) ==
    LET sections == menuConfig.sections
        SectionText(k) ==
            (IF sections[k].title # "" /\ Len(sections) > 1
             THEN "*" \o sections[k].title \o ":*\n" ELSE "")
            \o Join([r \in 1..Len(sections[k].rows) |-> RowText(sections[k].rows[r], r - 1)], "")
            \o (IF k < Len(sections) THEN "\n" ELSE "")
    IN "*" \o menuConfig.title \o "*\n\n"
       \o (IF menuConfig.description # "" THEN menuConfig.description \o "\n\n" ELSE "")
       \o Join([k \in 1..Len(sections) |-> SectionText(k)], "")
       \o "\n" \o OptionHint

\* the text sendListMessage sends for a menu that fails validation
InvalidMenuText == "Erro ao exibir opções. Por favor, tente novamente digitando \"menu\"."

\* this.messageQueue.push(messageFunction)
queueMessage(w, req) ==
    [w EXCEPT !.messageQueue = Append(@, req), !.queued = @ \cup {req.seq}]

\* a call on the client for the request req
ClientCall(w, req, kind, body, ok) ==
    [w EXCEPT !.wire = Append(@, [ seq |-> req.seq, to |-> req.formattedTo,
                                   kind |-> kind, body |-> body, ok |-> ok ])]

\* sendText(to, body, false) called for req, the client throwing iff fails > 0
sendTextWithoutTyping(w, req, body, fails) ==
    IF ~isServiceReady(w)
    THEN [ w |-> queueMessage(w, [req EXCEPT !.kind = "text", !.body = body, !.menu = NoMenu,
                                             !.withTyping = FALSE]),
           val |-> "false" ]
    ELSE [ w |-> ClientCall(w, req, "text", body, fails = 0),
           val |-> IF fails = 0 THEN "true" ELSE "false" ]

\* sendText and sendListMessage from the return of the typing delay on, the
\* first fails calls on the client throwing
AfterTyping(w, req, fails) ==
    IF req.kind = "text"
    THEN IF ~w.isReady THEN [w |-> w, val |-> "false"]
         ELSE [ w |-> ClientCall(w, req, "text", req.body, fails = 0),
                val |-> IF fails = 0 THEN "true" ELSE "false" ]
    ELSE IF ~validateMenuConfig(req.menu)
    THEN sendTextWithoutTyping(w, req, InvalidMenuText, fails)
    ELSE IF w.isReady /\ fails = 0
    THEN [w |-> ClientCall(w, req, "list", req.menu.title, TRUE), val |-> "true"]
    ELSE IF w.isReady
    THEN sendTextWithoutTyping(ClientCall(w, req, "list", req.menu.title, FALSE), req,
                               convertMenuToText(req.menu), fails - 1)
    ELSE sendTextWithoutTyping(w, req, convertMenuToText(req.menu), fails)

\* sendText / sendListMessage from its call to its first await or its return;
\* val is "pending" while the call is suspended
Invoke(w, req, origin, fails) ==
    IF ~isServiceReady(w) THEN [w |-> queueMessage(w, req), val |-> "false"]
    ELSE IF req.withTyping
    THEN [ w |-> [w EXCEPT !.awaiting = Append(@, [req |-> req, origin |-> origin])],
           val |-> "pending" ]
    ELSE AfterTyping(w, req, fails)

\* processMessageQueue from the test of its loop to its next await
processMessageQueue(w, fails) ==
    IF w.messageQueue = << >> THEN [w EXCEPT !.processingQueue = FALSE, !.pending = 0]
    ELSE LET messageFunc == Head(w.messageQueue)
             r == Invoke([w EXCEPT !.messageQueue = Tail(@)], messageFunc, "queue", fails)
         IN [r.w EXCEPT !.pending = IF r.val = "pending" THEN messageFunc.seq ELSE 0]

setClient(w, fails) ==
    LET ready == [w EXCEPT !.isReady = TRUE]
    IN IF ready.processingQueue THEN ready
       ELSE processMessageQueue([ready EXCEPT !.processingQueue = TRUE], fails)

\* destroy(), which the shutdown follows with process.exit
destroy(w) == [w EXCEPT !.messageQueue = << >>, !.isReady = FALSE, !.exited = TRUE]

\* the calls on the client that threw
Failures(w) == Cardinality({ k \in 1..Len(w.wire) : ~w.wire[k].ok })

(***************************************************************************)
(* Actions.                                                                *)
(***************************************************************************)
\* the process runs: start() did not end in process.exit(1)
Running == ~(last.id = "start" /\ last.ret = "TypeError")

RemoveAt(seq, i) == SubSeq(seq, 1, i - 1) \o SubSeq(seq, i + 1, Len(seq))

\* the transport calls processMessage(message): the duplicate check, then the
\* await of markAsRead
Deliver(message) ==
    /\ Running
    /\ budget.events > 0
    /\ Len(tasks) < budget.inflight
    /\ LET info == extractMessageInfo(message)
           h == isMessageProcessed(Cur.c, info.from, info.id, now)
       IN /\ Commit([Cur EXCEPT !.c = h.c])
          /\ IF h.has
             THEN /\ tasks' = tasks
                  /\ last' = [ id |-> info.id, from |-> info.from, passed |-> FALSE,
                               ret |-> "false" ]
             ELSE /\ tasks' = Append(tasks, [ info |-> info, k |-> << Route(info) >>,
                                            replied |-> FALSE ])
                  /\ last' = last
    /\ budget' = [budget EXCEPT !.events = @ - 1]
    /\ UNCHANGED << wa, now, saved, inbox >>

\* what the I/O a continuation awaits may return where the continuation reads
\* it: a send returns false when the transport failed
Outcomes(k) ==
    IF k # << >> /\ Head(k).op \in {"ret", "ifHandled"} /\ Head(k).val = "sent"
    THEN {"true", "false"}
    ELSE {"true"}

\* some of the sends requested is addressed to the sender of the event
RepliesTo(sends, from) == \E j \in 1..Len(sends) : sends[j].to = formatPhone(from)

\* the task i after the run r of its continuation
Resumed(i, r) ==
    /\ Commit(r.st)
    /\ IF r.done
       THEN /\ tasks' = RemoveAt(tasks, i)
            /\ last' = [ id |-> tasks[i].info.id, from |-> tasks[i].info.from,
                         passed |-> TRUE, ret |-> r.st.ret ]
       ELSE /\ tasks' = [ tasks EXCEPT ![i].k = r.k,
                                     ![i].replied = @ \/ RepliesTo(r.st.out, tasks[i].info.from) ]
            /\ last' = last

\* the I/O a processMessage invocation awaits completes: it runs to its next
\* await, or returns
Resume(i) ==
    /\ i \in 1..Len(tasks)
    /\ \E sent \in Outcomes(tasks[i].k) :
          Resumed(i, Run([Cur EXCEPT !.sent = sent], tasks[i].k))
    /\ UNCHANGED << wa, now, saved, inbox, budget >>

\* the callback i after the run r of its continuation
Called(i, r) ==
    Commit([r.st EXCEPT !.deferred =
               IF r.done THEN RemoveAt(@, i)
               ELSE [@ EXCEPT ![i] = [at |-> -1, k |-> r.k]]])

\* a setTimeout callback runs when due, then resumes after each of its awaits
\* (at = -1 while it is suspended on I/O)
RunDeferred(i) ==
    /\ i \in 1..Len(deferred)
    /\ deferred[i].at <= now
    /\ \E sent \in Outcomes(deferred[i].k) :
          Called(i, Run([Cur EXCEPT !.sent = sent], deferred[i].k))
    /\ UNCHANGED << wa, now, saved, tasks, last, inbox, budget >>

\* the per-entry timer of CacheSystem.set deletes whatever the key holds now
CacheTimer(timer) ==
    /\ timer \in cacheTimers
    /\ timer.at <= now
    /\ cache' = CacheDelete(Cur.c, timer.key).cache
    /\ cacheTimers' = cacheTimers \ {timer}
    /\ UNCHANGED << wa, now, chatbot_is_on, sessions, stats, botTimers, marked, disabledUntil,
                    users, saved, tasks, deferred, leads, sheets, out, last, inbox, budget >>

\* the timer of disableBot re-enables the bot and saves the state
BotTimer(at) ==
    /\ at \in botTimers
    /\ at <= now
    /\ chatbot_is_on' = TRUE
    /\ botTimers' = botTimers \ {at}
    /\ saved' = saveState(TRUE, Cur.ss)
    /\ UNCHANGED << wa, now, sessions, stats, cache, cacheTimers, marked, disabledUntil, users,
                    tasks, deferred, leads, sheets, out, last, inbox, budget >>

\* the due times of the pending timers
TimerTimes ==
    { t.at : t \in cacheTimers } \cup botTimers
    \cup { deferred[i].at : i \in { j \in 1..Len(deferred) : deferred[j].at >= 0 } }

\* time passes, never beyond a pending timer: by TickMs or up to the next timer
Advance(to) ==
    /\ budget.ticks > 0
    /\ to > now
    /\ to = now + TickMs \/ to \in TimerTimes
    /\ \A t \in TimerTimes : to <= t
    /\ now' = to
    /\ budget' = [budget EXCEPT !.ticks = @ - 1]
    /\ UNCHANGED << wa, chatbot_is_on, sessions, stats, botTimers, cache, cacheTimers, marked,
                    disabledUntil, users, saved, tasks, deferred, leads, sheets, out, last,
                    inbox >>

\* POST /cache/clear
ClearCache ==
    /\ budget.admin > 0
    /\ cache # EmptyMap
    /\ cache' = CacheClear(Cur.c).cache
    /\ marked' = EmptyMap
    /\ budget' = [budget EXCEPT !.admin = @ - 1]
    /\ UNCHANGED << wa, now, chatbot_is_on, sessions, stats, botTimers, cacheTimers,
                    disabledUntil, users, saved, tasks, deferred, leads, sheets, out, last,
                    inbox >>

\* POST /bot/toggle {active, minutes}
ToggleBot(active, minutes) ==
    /\ budget.admin > 0
    /\ chatbot_is_on' = active
    /\ botTimers' = IF active THEN botTimers
                    ELSE botTimers \cup {now + minutes * MsPerMinute}
    /\ disabledUntil' = IF active THEN 0 ELSE now + minutes * MsPerMinute
    /\ budget' = [budget EXCEPT !.admin = @ - 1]
    /\ UNCHANGED << wa, now, sessions, stats, cache, cacheTimers, marked, users, saved, tasks,
                    deferred, leads, sheets, out, last, inbox >>

\* DELETE /sessions/:phone; an invocation suspended after it read the session
\* keeps the removed object
RemoveSession(phone) ==
    /\ budget.admin > 0
    /\ phone \in DOMAIN sessions
    /\ sessions' = removeUserSession(Cur.ss, phone).sessions
    /\ tasks' = [ i \in 1..Len(tasks) |->
                    IF /\ tasks[i].k # << >>
                       /\ Head(tasks[i].k).op = "flow"
                       /\ Head(tasks[i].k).info.from = phone
                       /\ Head(tasks[i].k).session = << >>
                    THEN [tasks[i] EXCEPT !.k =
                             << [Head(tasks[i].k) EXCEPT !.session = << sessions[phone] >>] >>
                             \o Tail(tasks[i].k)]
                    ELSE tasks[i] ]
    /\ budget' = [budget EXCEPT !.admin = @ - 1]
    /\ UNCHANGED << wa, now, chatbot_is_on, stats, botTimers, cache, cacheTimers, marked,
                    disabledUntil, users, saved, deferred, leads, sheets, out, last, inbox >>

\* a save that writes a session as it is between the push of a history record
\* and Object.assign: the new record, the flow of the record before it
AutoSaveTorn ==
    /\ Running
    /\ \E phone \in DOMAIN sessions :
          /\ Len(sessions[phone].history) >= 2
          /\ saved' = saveState(chatbot_is_on,
                                [Cur.ss EXCEPT !.sessions[phone].currentFlow =
                                    sessions[phone].history[Len(sessions[phone].history)].from])
    /\ UNCHANGED << wa, now, chatbot_is_on, sessions, stats, botTimers, cache, cacheTimers,
                    marked, disabledUntil, users, tasks, deferred, leads, sheets, out, last,
                    inbox, budget >>

\* the setInterval callback of startAutoSave, and destroy() on SIGINT/SIGTERM
AutoSave ==
    /\ Running
    /\ saved # saveState(chatbot_is_on, Cur.ss)
    /\ saved' = saveState(chatbot_is_on, Cur.ss)
    /\ UNCHANGED << wa, now, chatbot_is_on, sessions, stats, botTimers, cache, cacheTimers,
                    marked, disabledUntil, users, tasks, deferred, leads, sheets, out, last,
                    inbox, budget >>

\* the process ends and a new one starts: new StateManager() loads state.json,
\* the cache, the timers and the invocations in flight are gone, and start()
\* sweeps the sessions; the sweep throws when the loaded state has no sessions,
\* and start() ends the process
Restart ==
    /\ budget.admin > 0
    /\ LET loaded == loadState(saved, now)
           throws == LacksSessions(saved)
           swept == IF throws THEN loaded.s
                    ELSE cleanInactiveSessions(loaded.s, MaxInactiveHours, now)
       IN /\ chatbot_is_on' = loaded.on
          /\ sessions' = swept.sessions
          /\ stats' = swept.stats
          /\ last' = IF throws
                     THEN [id |-> "start", from |-> "", passed |-> FALSE, ret |-> "TypeError"]
                     ELSE last
    /\ botTimers' = {}
    /\ cache' = EmptyMap
    /\ cacheTimers' = {}
    /\ marked' = EmptyMap
    /\ tasks' = << >>
    /\ deferred' = << >>
    /\ out' = << >>
    /\ budget' = [budget EXCEPT !.admin = @ - 1]
    /\ UNCHANGED << wa, now, disabledUntil, users, saved, leads, sheets, inbox >>

\* time passes up to the next pending timer
Elapse ==
    /\ TimerTimes # {}
    /\ \A t \in TimerTimes : t > now
    /\ now' = CHOOSE t \in TimerTimes : \A u \in TimerTimes : t <= u
    /\ UNCHANGED << wa, chatbot_is_on, sessions, stats, botTimers, cache, cacheTimers, marked,
                    disabledUntil, users, saved, tasks, deferred, leads, sheets, out, last,
                    inbox, budget >>

\* cacheSystem.markMessageProcessed(from, messageId, ttl)
MarkProcessed(from, messageId, ttl) ==
    /\ budget.events > 0
    /\ LET c == CacheSet(Cur.c, generateMessageKey(from, messageId), TRUE, ttl, now)
       IN /\ cache' = c.cache
          /\ cacheTimers' = c.cacheTimers
    /\ marked' = MapSet(marked, generateMessageKey(from, messageId), [at |-> now, ttl |-> ttl])
    /\ budget' = [budget EXCEPT !.events = @ - 1]
    /\ UNCHANGED << wa, now, chatbot_is_on, sessions, stats, botTimers, disabledUntil, users,
                    saved, tasks, deferred, leads, sheets, out, last, inbox >>

\* cacheSystem.isMessageProcessed(from, messageId); last.ret is what it returned
Query(from, messageId) ==
    /\ LET h == isMessageProcessed(Cur.c, from, messageId, now)
       IN /\ cache' = h.c.cache
          /\ last' = [ id |-> messageId, from |-> from, passed |-> ~h.has,
                       ret |-> IF h.has THEN "true" ELSE "false" ]
    /\ UNCHANGED << wa, now, chatbot_is_on, sessions, stats, botTimers, cacheTimers, marked,
                    disabledUntil, users, saved, tasks, deferred, leads, sheets, out, inbox,
                    budget >>

\* the setInterval callback of the CacheSystem constructor
Sweep ==
    /\ cache' = performCleanup(Cur.c, now).cache
    /\ cache' # cache
    /\ UNCHANGED << wa, now, chatbot_is_on, sessions, stats, botTimers, cacheTimers, marked,
                    disabledUntil, users, saved, tasks, deferred, leads, sheets, out, last,
                    inbox, budget >>

\* time passes; a timer that is due may run late
Tick ==
    /\ budget.ticks > 0
    /\ now' = now + TickMs
    /\ budget' = [budget EXCEPT !.ticks = @ - 1]
    /\ UNCHANGED << wa, chatbot_is_on, sessions, stats, botTimers, cache, cacheTimers, marked,
                    disabledUntil, users, saved, tasks, deferred, leads, sheets, out, last,
                    inbox >>

\* stateManager.getUserSession(phone); last.passed is whether the address had
\* a session; total_users++ throws when the state has no stats, after the
\* session was stored
GetOrCreate(phone) ==
    /\ Running
    /\ budget.events > 0
    /\ LET throws == phone \notin DOMAIN sessions /\ DOMAIN stats = {}
           s == IF throws THEN [Cur.ss EXCEPT !.sessions = MapSet(@, phone, NewSession(now))]
                ELSE getUserSession(Cur.ss, phone, now)
       IN /\ sessions' = s.sessions
          /\ stats' = s.stats
          /\ last' = [ id |-> "getUserSession", from |-> phone,
                       passed |-> phone \in DOMAIN sessions,
                       ret |-> IF throws THEN "TypeError" ELSE Undef ]
    /\ users' = users \cup {phone}
    /\ budget' = [budget EXCEPT !.events = @ - 1]
    /\ UNCHANGED << wa, now, chatbot_is_on, botTimers, cache, cacheTimers, marked,
                    disabledUntil, saved, tasks, deferred, leads, sheets, out, inbox >>

\* stateManager.updateUserSession(phone, updates); last.passed is whether the
\* updates name a flow
Update(phone, updates) ==
    /\ Running
    /\ budget.events > 0
    /\ LET s == updateUserSession(Cur.ss, phone, updates, now)
       IN /\ sessions' = s.sessions
          /\ stats' = s.stats
    /\ users' = users \cup {phone}
    /\ last' = [ id |-> "updateUserSession", from |-> phone,
                 passed |-> "currentFlow" \in DOMAIN updates, ret |-> Undef ]
    /\ budget' = [budget EXCEPT !.events = @ - 1]
    /\ UNCHANGED << wa, now, chatbot_is_on, botTimers, cache, cacheTimers, marked,
                    disabledUntil, saved, tasks, deferred, leads, sheets, out, inbox >>

\* stateManager.incrementMessageCount(); total_messages++ throws when the
\* state has no stats
CountMessage ==
    /\ Running
    /\ budget.events > 0
    /\ stats' = IF DOMAIN stats = {} THEN stats ELSE incrementMessageCount(Cur.ss).stats
    /\ last' = [ id |-> "incrementMessageCount", from |-> "", passed |-> FALSE,
                 ret |-> IF DOMAIN stats = {} THEN "TypeError" ELSE Undef ]
    /\ budget' = [budget EXCEPT !.events = @ - 1]
    /\ UNCHANGED << wa, now, chatbot_is_on, sessions, botTimers, cache, cacheTimers, marked,
                    disabledUntil, users, saved, tasks, deferred, leads, sheets, out, inbox >>

(***************************************************************************)
(* Inbound messages and the conversations that lead to the initial states. *)
(***************************************************************************)
Alice == "5511999990001@c.us"
Bob == "5511999990002@c.us"

Text(id, from, body) == Message(id, from, body, "chat", Undef)
Pick(id, from, title, rowId) == Message(id, from, title, "list_response", rowId)

\* the happy path of a quote, typed
HappyScript ==
    << Text("h01", Alice, "oi"),
       Text("h02", Alice, "2"),
       Text("h03", Alice, "Maria Silva"),
       Text("h04", Alice, "maria@x.com"),
       Text("h05", Alice, "1"),
       Text("h06", Alice, "52998224725"),
       Text("h07", Alice, "auto"),
       Text("h08", Alice, "Fiat"),
       Text("h09", Alice, "ABC1234"),
       Text("h10", Alice, "13015900") >>

\* a conversation that ended with a transfer to a human
TransferScript == << Text("t01", Alice, "oi"), Text("t02", Alice, "atendente") >>

Budget(events, ticks, admin, inflight) ==
    [events |-> events, ticks |-> ticks, admin |-> admin, inflight |-> inflight]

\* an initial state: the state a conversation left, and what is delivered next
Scenario(prefix, messages) == [prefix |-> prefix, inbox |-> messages]

Scenarios ==
    { Scenario(<< >>, {Text("m1", Alice, "oi"), Text("m2", Alice, "2")}),
      Scenario(SubSeq(HappyScript, 1, 3),
               {Text("m1", Alice, "voltar"), Text("m2", Alice, "anterior")}),
      Scenario(SubSeq(HappyScript, 1, 9),
               {Text("m1", Alice, "13015900"), Text("m2", Alice, "ok")}),
      Scenario(TransferScript,
               {Text("m1", Alice, "bom dia"), Text("m2", Alice, "menu")}) }

\* the process in the state st, state.json holding file
StartWithService(st, messages, b, file, service) ==
    /\ wa = service
    /\ now = st.now
    /\ chatbot_is_on = st.on
    /\ sessions = st.ss.sessions
    /\ stats = st.ss.stats
    /\ botTimers = st.botTimers
    /\ cache = st.c.cache
    /\ cacheTimers = st.c.cacheTimers
    /\ marked = st.marked
    /\ disabledUntil = st.disabledUntil
    /\ users = DOMAIN st.ss.sessions
    /\ saved = file
    /\ deferred = st.deferred
    /\ leads = st.leads
    /\ sheets = st.sheets
    /\ tasks = << >>
    /\ out = << >>
    /\ last = [id |-> "", from |-> "", passed |-> FALSE, ret |-> Undef]
    /\ inbox = messages
    /\ budget = b

\* the process with its WhatsApp client connected
StartWith(st, messages, b, file) == StartWithService(st, messages, b, file, Connected)

\* state.json as the auto-save left it
Start(st, messages, b) ==
    StartWith(st, messages, b, IF st.now >= AutoSaveMs THEN saveState(st.on, st.ss) ELSE << >>)

Init ==
    \E sc \in Scenarios :
        Start(Settle(SeqRun(Boot, sc.prefix)), sc.inbox,
              Budget(MaxEvents, MaxTicks, MaxAdmin, MaxInFlight))

Next ==
    \/ \E message \in inbox : Deliver(message)
    \/ \E i \in 1..Len(tasks) : Resume(i)
    \/ \E i \in 1..Len(deferred) : RunDeferred(i)
    \/ \E timer \in cacheTimers : CacheTimer(timer)
    \/ \E at \in botTimers : BotTimer(at)
    \/ \E to \in {now + TickMs} \cup TimerTimes : Advance(to)
    \/ ClearCache
    \/ \E active \in BOOLEAN : ToggleBot(active, TransferMinutes)
    \/ \E phone \in DOMAIN sessions : RemoveSession(phone)

Spec == Init /\ [][Next]_vars

(***************************************************************************)
(* Redelivery of one event, one invocation at a time, with the clock and   *)
(* the cache's timers and clear().                                         *)
(***************************************************************************)
InitDedup ==
    Start(Boot, {Text("d1", Alice, "oi"), Text("d2", Bob, "oi")},
          Budget(MaxEvents + 1, MaxTicks + 1, MaxAdmin, 1))

NextDedup ==
    \/ \E message \in inbox : Deliver(message)
    \/ \E i \in 1..Len(tasks) : Resume(i)
    \/ \E timer \in cacheTimers : CacheTimer(timer)
    \/ \E to \in {now + TickMs} \cup TimerTimes : Advance(to)
    \/ ClearCache

SpecDedup == InitDedup /\ [][NextDedup]_vars

(***************************************************************************)
(* The happy path of a quote: the events of HappyScript in order, one      *)
(* invocation at a time, within the first defaultTTL of the process.       *)
(***************************************************************************)
Range(seq) == { seq[i] : i \in 1..Len(seq) }

InitHappy ==
    \E ready \in BOOLEAN :
        Start([Boot EXCEPT !.sheets.ready = ready], Range(HappyScript),
              Budget(Len(HappyScript), MaxTicks, 0, 1))

\* the transport delivers the next event of the script
DeliverScripted ==
    /\ budget.events > 0
    /\ Deliver(HappyScript[Len(HappyScript) - budget.events + 1])

NextHappy ==
    \/ DeliverScripted
    \/ \E i \in 1..Len(tasks) : Resume(i)
    \/ \E i \in 1..Len(deferred) : RunDeferred(i)
    \/ \E to \in {now + TickMs} \cup TimerTimes : Advance(to)

SpecHappy == InitHappy /\ [][NextHappy]_vars

(***************************************************************************)
(* Any conversation state, then up to MaxEvents further events of a        *)
(* vocabulary that reaches every branch of the router and of the flow      *)
(* handlers, one invocation at a time.                                     *)
(***************************************************************************)
\* conversations, processed one event at a time, that leave the session in each
\* flow and each step a conversation reaches
Conversations ==
    { SubSeq(HappyScript, 1, n) : n \in 0..Len(HappyScript) }
    \cup { << Text("p01", Alice, "oi"), Text("p02", Alice, "1") >> \o rest :
             rest \in { << >>, << Text("p03", Alice, "2") >>, << Text("p03", Alice, "3") >>,
                        << Text("p03", Alice, "5") >>,
                        << Text("p03", Alice, "5"), Text("p04", Alice, "porto") >> } }
    \cup { TransferScript }

\* the bodies of the further events
Words ==
    { "oi", "menu", "voltar", "anterior", "tchau", "atendente", "1", "2",
      "Maria Silva", "maria@x.com", "52998224725", "auto", "ABC1234", "13015900", "porto",
      "ok", "oi menu", "tchau, oi", "atendente, tchau", "menu cotacao" }

InitFlows ==
    \E prefix \in Conversations :
        Start(Settle(SeqRun(Boot, prefix)), { Text("w " \o body, Alice, body) : body \in Words },
              Budget(MaxEvents, 0, 0, 1))

NextFlows ==
    \/ \E message \in inbox : Deliver(message)
    \/ \E i \in 1..Len(tasks) : Resume(i)

SpecFlows == InitFlows /\ [][NextFlows]_vars

(***************************************************************************)
(* Handoffs asked for by a customer and by the operator's own number.      *)
(***************************************************************************)
HandoffWords == { "atendente", "oi", "menu", "2" }

InitHandoff ==
    \E prefix \in { << >>, TransferScript } :
        Start(Settle(SeqRun(Boot, prefix)),
              { Text("n " \o body, from, body) :
                  from \in { Alice, formatPhone(defaultBrokerNumber) }, body \in HandoffWords },
              Budget(MaxEvents, 0, 0, MaxInFlight))

NextHandoff ==
    \/ \E message \in inbox : Deliver(message)
    \/ \E i \in 1..Len(tasks) : Resume(i)

SpecHandoff == InitHandoff /\ [][NextHandoff]_vars

(***************************************************************************)
(* A handoff and what follows it with no further event: the clock, the     *)
(* timers, the auto-save, and restarts of the process.  The event loop     *)
(* runs a timer that is due, and time passes.                              *)
(***************************************************************************)
InitRestart ==
    \E prefix \in { << >>, TransferScript } :
        Start(Settle(SeqRun(Boot, prefix)),
              { Text("r1", Alice, "atendente"), Text("r2", Alice, "menu") },
              Budget(MaxEvents, 0, MaxAdmin, 1))

NextRestart ==
    \/ \E message \in inbox : Deliver(message)
    \/ \E i \in 1..Len(tasks) : Resume(i)
    \/ \E timer \in cacheTimers : CacheTimer(timer)
    \/ \E at \in botTimers : BotTimer(at)
    \/ Elapse
    \/ AutoSave
    \/ Restart

SpecRestart ==
    /\ InitRestart
    /\ [][NextRestart]_vars
    /\ WF_vars(Elapse)
    /\ WF_vars(\E at \in botTimers : BotTimer(at))
    /\ WF_vars(\E timer \in cacheTimers : CacheTimer(timer))

(***************************************************************************)
(* The CacheSystem alone: insertions with a ttl, queries, the per-entry    *)
(* timers, the sweep, clear() and the clock.                               *)
(***************************************************************************)
CacheTTLs == { TickMs, defaultTTL }
CacheEvents == { "e1", "e2" }

InitCache == Start(Boot, {}, Budget(MaxEvents + 1, MaxTicks + 2, MaxAdmin, 0))

NextCache ==
    \/ \E messageId \in CacheEvents, ttl \in CacheTTLs : MarkProcessed(Alice, messageId, ttl)
    \/ \E messageId \in CacheEvents : Query(Alice, messageId)
    \/ \E timer \in cacheTimers : CacheTimer(timer)
    \/ Sweep
    \/ Tick
    \/ ClearCache

SpecCache == InitCache /\ [][NextCache]_vars

(***************************************************************************)
(* The StateManager's sessions alone: getUserSession, updateUserSession    *)
(* with the kinds of updates the flows pass, removal, and the clock.       *)
(***************************************************************************)
Partials ==
    { [currentFlow |-> "cotacao", currentStep |-> "tipo_seguro"],
      [currentFlow |-> "welcome", currentStep |-> "inicio"],
      [currentFlow |-> "main_menu"],
      [currentStep |-> "coleta_nome"],
      [data |-> [EmptyData EXCEPT !.tipo_usuario = "cliente"]] }

InitSessions == Start(Boot, {}, Budget(MaxEvents + 1, MaxTicks, MaxAdmin, 0))

NextSessions ==
    \/ \E phone \in {Alice, Bob} : GetOrCreate(phone)
    \/ \E phone \in {Alice, Bob}, updates \in Partials : Update(phone, updates)
    \/ \E phone \in DOMAIN sessions : RemoveSession(phone)
    \/ Tick

SpecSessions == InitSessions /\ [][NextSessions]_vars

(***************************************************************************)
(* Any conversation state, further events, the auto-save and restarts of   *)
(* the process from state.json.                                            *)
(***************************************************************************)
InitPersist ==
    \E prefix \in Conversations :
        Start(Settle(SeqRun(Boot, prefix)),
              { Text("s1", Alice, "menu"), Text("s2", Bob, "oi") },
              Budget(MaxEvents, 0, MaxAdmin, 1))

NextPersist ==
    \/ \E message \in inbox : Deliver(message)
    \/ \E i \in 1..Len(tasks) : Resume(i)
    \/ AutoSave
    \/ Restart

SpecPersist == InitPersist /\ [][NextPersist]_vars

(***************************************************************************)
(* The StateManager started on a state.json it did not write itself: no    *)
(* file, a text that does not parse, and texts that parse to something     *)
(* other than a complete state.                                            *)
(***************************************************************************)
Files ==
    { << >>, << Corrupt >>, << JNull >>, << JObject(EmptyMap) >>,
      << JObject([ chatbot_is_on |-> JBoolean(FALSE), sessions |-> JObject(EmptyMap) ]) >>,
      saveState(FALSE, SeqRun(Boot, TransferScript).ss) }

InitLoad ==
    \E file \in Files :
        StartWith(Boot, {}, Budget(MaxEvents + 1, MaxTicks, MaxAdmin, 0), file)

NextLoad ==
    \/ Restart
    \/ \E phone \in {Alice, Bob} : GetOrCreate(phone)
    \/ CountMessage
    \/ Tick

SpecLoad == InitLoad /\ [][NextLoad]_vars

(***************************************************************************)
(* Duplicate detection and serialization.                                  *)
(***************************************************************************)
MessageKey(message) == generateMessageKey(message.from, message.id)

\* an invocation for the message marked it processed less than defaultTTL ago,
\* and the cache was not cleared since
MarkedWithinTTL(message) ==
    /\ MessageKey(message) \in DOMAIN marked
    /\ now < marked[MessageKey(message)].at + marked[MessageKey(message)].ttl

\* the invocation of processMessage that starts in this step returns at the
\* duplicate check: no task, no session change, no count, no send
Dropped ==
    /\ tasks' = tasks
    /\ sessions' = sessions
    /\ stats' = stats
    /\ out' = << >>
    /\ last'.ret = "false"

\* C1: when processMessage is invoked for a (sender, eventId) that an earlier
\* invocation marked processed less than defaultTTL ago, the new invocation
\* returns without changing a session, without counting the message and
\* without requesting a send.
DedupIdempotence ==
    [][\A message \in inbox : Deliver(message) /\ MarkedWithinTTL(message) => Dropped]_vars

\* C2: of two deliveries of the same (sender, eventId) that overlap in time at
\* most one passes the duplicate check: no two invocations that passed it and
\* have not returned are for the same (sender, eventId).
DedupUnderOverlap ==
    \A i, j \in 1..Len(tasks) :
        i # j => generateMessageKey(tasks[i].info.from, tasks[i].info.id)
                 # generateMessageKey(tasks[j].info.from, tasks[j].info.id)

\* C3: at any moment at most one invocation is mid-flight for a sender address.
SerializedPerAddress ==
    \A i, j \in 1..Len(tasks) : i # j => tasks[i].info.from # tasks[j].info.from

RouteStep(i) ==
    /\ tasks[i].k # << >>
    /\ Head(tasks[i].k).op = "route"
    /\ Resume(i)

\* the step in which invocation i runs the handler of the flow it read
FlowStep(i) ==
    /\ tasks[i].k # << >>
    /\ Head(tasks[i].k).op = "flow"
    /\ Resume(i)

\* invocation i returned in this step
Returned(i) == tasks' = RemoveAt(tasks, i)

\* the step in which handleGlobalCommands, having matched the body of the event
\* of invocation i, returns to processMessage
Intercepted(i) ==
    /\ tasks[i].k # << >>
    /\ Head(tasks[i].k).op = "ifHandled"
    /\ Resume(i)

\* C5: with the bot disabled, the invocation for an event that passed the
\* duplicate check and whose body is no menu command requests no send and
\* creates or changes no session, while it marks the event processed, counts
\* the message exactly once and returns false.
SilentWhileDisabled ==
    [][\A i \in 1..Len(tasks) :
          RouteStep(i) /\ ~chatbot_is_on /\ ~isMenuCommand(tasks[i].info.body)
          => /\ out' = << >>
             /\ sessions' = sessions
             /\ stats' = [stats EXCEPT !.total_messages = @ + 1]
             /\ MessageKey(tasks[i].info) \in DOMAIN cache'
             /\ Returned(i)
             /\ last'.ret = "false"]_vars

\* an event was counted and marked while the bot was disabled, and nothing else
DroppedWhileDisabled ==
    /\ ~chatbot_is_on
    /\ last.passed
    /\ last.ret = "false"
    /\ out = << >>
    /\ generateMessageKey(last.from, last.id) \in DOMAIN cache
    /\ last.from \in DOMAIN sessions
    /\ sessions[last.from].currentFlow = "atendimento"

\* the categories of global command the normalized body matches
Categories(body) ==
    { c \in {"reset", "greeting", "farewell", "human"} :
        \/ c = "reset" /\ isMenuCommand(normalizeText(body))
        \/ c = "greeting" /\ isGreeting(normalizeText(body))
        \/ c = "farewell" /\ isFarewell(normalizeText(body))
        \/ c = "human" /\ isRequestingHuman(normalizeText(body)) }

\* the one send the step requested is the welcome menu
WelcomeMenuSent ==
    /\ Len(out') = 1
    /\ out'[1].kind = "list"
    /\ out'[1].tag = "welcomeMenu"

SeveralCategoriesMatched ==
    \E i \in 1..Len(tasks) :
        /\ Cardinality(Categories(tasks[i].info.body)) > 1
        /\ "reset" \notin Categories(tasks[i].info.body)
        /\ out # << >>
        /\ tasks[i].info.from \in DOMAIN sessions
        /\ sessions[tasks[i].info.from].data # EmptyData

ResetWhileDisabled ==
    \E i \in 1..Len(tasks) :
        LET from == tasks[i].info.from
        IN /\ isMenuCommand(tasks[i].info.body)
           /\ chatbot_is_on
           /\ botTimers # {}
           /\ from \in DOMAIN sessions
           /\ sessions[from].currentFlow = "welcome_response"
           /\ Len(sessions[from].history) > 1
           /\ sessions[from].history[Len(sessions[from].history) - 1].from = "atendimento"

HappyPathExport ==
    /\ Len(leads) <= 1
    /\ budget.events = 0 /\ tasks = << >>
       => /\ Len(leads) = 1
          /\ leads[1].nome = "Maria Silva"
          /\ leads[1].email = "maria@x.com"
          /\ leads[1].cpf = "52998224725"
          /\ leads[1].tipoSeguro = "Seguro Auto"
          /\ leads[1].veiculo = "Fiat"
          /\ leads[1].cep = "13015900"
          /\ Includes(leads[1].observacoes, "Placa: ABC1234")
          /\ Alice \in DOMAIN sessions
          /\ sessions[Alice].currentFlow = "finalization"

\* the whole script was processed, the record exported and the deferred
\* confirmation sent
HappyPathDone ==
    /\ budget.events = 0
    /\ tasks = << >>
    /\ deferred = << >>
    /\ leads # << >>
    /\ stats.total_messages = Len(HappyScript)

\* C10: a completed intake is pushed to the export once: no two records of
\* the export are the same intake of the same address.
ExportedOnce ==
    \A i, j \in 1..Len(leads) : i # j => leads[i] # leads[j]


(***************************************************************************)
(* The handoff to a human.                                                 *)
(***************************************************************************)
\* the address notifyBrokerTransfer sends to
OperatorAddress == formatPhone(defaultBrokerNumber)

\* transferToHuman(from) is suspended on its notification of the operator: the
\* acknowledgment, the disabling and the update of the session are still to come
AwaitsAck(k, from) ==
    /\ Len(k) >= 3
    /\ k[1].op = "send" /\ k[1].kind = "text" /\ k[1].tag = "transferindo" /\ k[1].to = from
    /\ k[2].op = "disable"
    /\ k[3].op = "updTransferred"

\* the continuation of invocation i after this step, << >> when it returned
Continuation(i) == IF Len(tasks') = Len(tasks) THEN tasks'[i].k ELSE << >>

\* C11: a handoff requests one send to the operator's address, the
\* notification, then one send to the originating user, the acknowledgment,
\* and nothing else; when it returns the bot is disabled, its re-enabling is
\* scheduled TransferMinutes later and the user's session is in the flow
\* "atendimento".
HandoffOnce ==
    [][\A i \in 1..Len(tasks) :
          Resume(i) =>
          LET from == tasks[i].info.from
              k == tasks[i].k
          IN /\ AwaitsAck(Continuation(i), from)
                => /\ Len(out') = 1
                   /\ out'[1].kind = "notify"
                   /\ out'[1].to = OperatorAddress
             /\ (Continuation(i) # << >> /\ Head(Continuation(i)).op = "disable")
                => /\ AwaitsAck(k, from)
                   /\ Len(out') = 1
                   /\ out'[1].kind = "text"
                   /\ out'[1].tag = "transferindo"
                   /\ out'[1].to = formatPhone(from)
             /\ (k # << >> /\ Head(k).op = "disable")
                => /\ out' = << >>
                   /\ ~chatbot_is_on'
                   /\ now + TransferMinutes * MsPerMinute \in botTimers'
                   /\ from \in DOMAIN sessions'
                   /\ sessions'[from].currentFlow = "atendimento"
                   /\ sessions'[from].currentStep = "transferido"
                   /\ Returned(i)
                   /\ last'.ret = "true"]_vars

\* a handoff ran to its end: the invocation returned true, the bot is disabled
\* and the user's session is the one transferToHuman leaves
HandoffDone ==
    /\ last.passed
    /\ last.ret = "true"
    /\ ~chatbot_is_on
    /\ botTimers # {}
    /\ last.from \in DOMAIN sessions
    /\ sessions[last.from].currentFlow = "atendimento"
    /\ sessions[last.from].currentStep = "transferido"
    /\ sessions[last.from].data.transferred_at = Numeral(now)


\* C12: the notification of a handoff is never sent to the address of the user
\* whose event started the handoff.
NotifiedElsewhere ==
    [][\A i \in 1..Len(tasks) :
          Resume(i) =>
          \A j \in 1..Len(out') :
              out'[j].kind = "notify" => out'[j].to # formatPhone(tasks[i].info.from)]_vars


(***************************************************************************)
(* The window of disableBot.                                               *)
(***************************************************************************)
\* C14: from a call of disableBot(m) until m minutes later the bot stays
\* disabled unless enableBot is called (by POST /bot/toggle or by the reset
\* command) after it; the timer of an earlier call does not shorten the
\* window of a later one.
DisabledThroughWindow == now < disabledUntil => ~chatbot_is_on


\* C13: once the bot is disabled it is enabled again later with no further
\* input, restarts of the process from the persisted state included
ReenabledEventually == ~chatbot_is_on ~> chatbot_is_on

\* the latest insertion of the key since the last clear() has expired
Expired(key) == key \in DOMAIN marked /\ now > marked[key].at + marked[key].ttl

\* C15: after markMessageProcessed(sender, eventId, T) at time t0, every
\* isMessageProcessed(sender, eventId) at a time later than t0 + T, with no
\* newer insertion of the key, returns false.
ExpiredNotProcessed ==
    [][\A messageId \in CacheEvents :
          Query(Alice, messageId) /\ Expired(generateMessageKey(Alice, messageId))
          => last'.ret = "false"]_vars

\* a query found an expired key absent
QueriedExpired ==
    /\ Expired(generateMessageKey(last.from, last.id))
    /\ last.ret = "false"

\* C16: after markMessageProcessed(s, e, ttl) at time t with no clear() since,
\* isMessageProcessed(s, e) is true at every time in [t, t + ttl], whatever
\* insertions, clears and re-insertions of the key came before.
PresentThroughLifetime ==
    \A key \in DOMAIN marked :
        now <= marked[key].at + marked[key].ttl
        => key \in DOMAIN cache /\ ~(now > cache[key].expirationTime)

\* the session updateUserSession works on: the stored one, or the one its
\* getUserSession call creates
Stored(phone) == IF phone \in DOMAIN sessions THEN sessions[phone] ELSE NewSession(now)

GetOrCreateContract ==
    [][\A phone \in {Alice, Bob} :
          GetOrCreate(phone)
          => IF phone \in DOMAIN sessions
             THEN /\ sessions' = [sessions EXCEPT ![phone].lastActivity = now]
                  /\ stats' = stats
             ELSE /\ DOMAIN sessions' = DOMAIN sessions \cup {phone}
                  /\ \A other \in DOMAIN sessions : sessions'[other] = sessions[other]
                  /\ sessions'[phone].currentFlow = "welcome"
                  /\ sessions'[phone].currentStep = "inicio"
                  /\ sessions'[phone].data = EmptyData
                  /\ sessions'[phone].history = << >>
                  /\ stats' = [stats EXCEPT !.total_users = @ + 1]]_vars

\* getUserSession ran on an address that had a session, created earlier
GotExisting ==
    /\ last.id = "getUserSession"
    /\ last.passed
    /\ last.from \in DOMAIN sessions
    /\ sessions[last.from].lastActivity > sessions[last.from].createdAt
    /\ stats.total_users = Cardinality(DOMAIN sessions)

\* C19: total_users is the number of distinct addresses a session was created
\* for (the stats are never reset), an address whose session was removed and
\* created again counting once.
DistinctUsers == stats.total_users = Cardinality(users)

\* C20: saveState followed by loadState yields the store it was given: the
\* same addresses, for each address the same currentFlow, currentStep, data,
\* history, createdAt and lastActivity, and the same bot-active flag and stats.
SessionRoundTrip ==
    loadState(saveState(chatbot_is_on, Cur.ss), now) = [on |-> chatbot_is_on, s |-> Cur.ss]

\* the process was restarted from a state.json that holds a session with
\* flow changes and quote data, and the file holds the store as it is
Reloaded ==
    /\ budget.admin = 0
    /\ saved = saveState(chatbot_is_on, Cur.ss)
    /\ \E phone \in DOMAIN sessions :
          /\ Len(sessions[phone].history) >= 2
          /\ sessions[phone].data.cotacao # NoCotacao
          /\ sessions[phone].data.cotacao.nome # Undef

\* the default state of loadState at the time of the step
DefaultLoaded ==
    /\ chatbot_is_on'
    /\ sessions' = EmptyMap
    /\ stats' = [total_messages |-> 0, total_users |-> 0, last_reset |-> now]

\* C21: when state.json is missing or does not parse, loadState returns the
\* default state; and whatever the file holds, startup does not fail and the
\* getUserSession and incrementMessageCount calls that follow do not throw.
LoadStateUsable ==
    [][/\ Restart /\ ~Loadable(saved) => DefaultLoaded
       /\ Restart \/ CountMessage \/ (\E phone \in {Alice, Bob} : GetOrCreate(phone))
          => last'.ret # "TypeError"]_vars

\* a session as updateUserSession leaves it: its flow is the one its last
\* history record leads to, and no record is later than its last activity
Whole(session) ==
    /\ session.currentFlow = IF session.history = << >> THEN "welcome"
                             ELSE session.history[Len(session.history)].to
    /\ \A i \in 1..Len(session.history) : session.history[i].timestamp <= session.lastActivity

\* C22: every snapshot saveState writes is the complete in-memory state of
\* the instant it is written, and every session in it is whole: none mixes
\* fields from before and after one updateUserSession call.
SnapshotAtOneInstant ==
    [][saved' # saved
       => /\ loadState(saved', now)
             = [on |-> chatbot_is_on', s |-> [sessions |-> sessions', stats |-> stats']]
          /\ \A phone \in DOMAIN loadState(saved', now).s.sessions :
                Whole(loadState(saved', now).s.sessions[phone])]_vars

\* a snapshot was written while an invocation was suspended on an await,
\* after it created a session
SnapshotMidFlight ==
    /\ tasks # << >>
    /\ Bob \in DOMAIN sessions
    /\ saved = saveState(chatbot_is_on, Cur.ss)

\* what the flow handler is given: listResponse || body
UserInput(info) == IF info.listResponse # Null THEN info.listResponse ELSE info.body

\* the input reaches the validation of the step and fails it
FailsValidation(step, input) ==
    /\ ~WantsBack(input)
    /\ CASE step = "coleta_nome" -> Len(Trim(input)) < 2 \/ ~LooksLikeName(Trim(input))
         [] step = "coleta_email" -> ~isValidEmail(ToLowerCase(Trim(input)))
         [] step = "coleta_cpf" -> ~isValidCPF(Trim(input))
         [] step = "coleta_placa_chassi" ->
              /\ ~isRequestingBack(input)
              /\ ~IsPlaca(ToUpperCase(OnlyAlnum(input)))
              /\ ~IsChassi(ToUpperCase(OnlyAlnum(input)))
         [] step = "coleta_cep_pernoite" -> Len(OnlyDigits(input)) # 8
         [] OTHER -> FALSE

\* the corrective messages of a step
Corrective(step) ==
    CASE step = "coleta_nome" -> {"nomeMuitoCurto", "nomeInvalido"}
      [] step = "coleta_email" -> {"emailInvalido"}
      [] step = "coleta_cpf" -> {"cpfInvalido"}
      [] step = "coleta_placa_chassi" -> {"placaInvalida"}
      [] step = "coleta_cep_pernoite" -> {"cepInvalido"}
      [] OTHER -> {}

\* C23: at the steps coleta_nome, coleta_email, coleta_cpf,
\* coleta_placa_chassi and coleta_cep_pernoite of the flow cotacao, the
\* handler given an input that fails the step's validation leaves the
\* session's flow, step and data as they are, requests exactly one send, the
\* corrective message of the step, and returns false.
ValidationRecovered ==
    [][\A i \in 1..Len(tasks) :
          LET from == tasks[i].info.from
          IN /\ FlowStep(i)
                /\ from \in DOMAIN sessions
                /\ sessions[from].currentFlow = "cotacao"
                /\ FailsValidation(sessions[from].currentStep, UserInput(tasks[i].info))
                => /\ sessions'[from].currentFlow = "cotacao"
                   /\ sessions'[from].currentStep = sessions[from].currentStep
                   /\ sessions'[from].data = sessions[from].data
                   /\ Len(out') = 1
                   /\ out'[1].to = formatPhone(from)
                   /\ out'[1].kind = "text"
                   /\ out'[1].tag \in Corrective(sessions[from].currentStep)
                   /\ Continuation(i) = << Ret("false") >>
             /\ Resume(i) /\ tasks[i].k = << Ret("false") >>
                => /\ Returned(i)
                   /\ last'.ret = "false"
                   /\ out' = << >>
                   /\ sessions' = sessions]_vars

\* the handler of coleta_cpf has sent its corrective message and is about to
\* return false
Reprompted ==
    \E i \in 1..Len(tasks) :
        /\ tasks[i].k = << Ret("false") >>
        /\ Len(out) = 1
        /\ out[1].tag = "cpfInvalido"
        /\ sessions[tasks[i].info.from].currentStep = "coleta_cpf"

(***************************************************************************)
(* The process started on a state.json whose session names a flow or a     *)
(* step this program does not register, or lacks the data its step reads   *)
(* (loadState returns what the file holds), then events of that user, one  *)
(* invocation at a time.                                                   *)
(***************************************************************************)
\* sessions as a state.json may hold them
StoredSessions ==
    { [NewSession(0) EXCEPT !.currentFlow = "agendamento", !.currentStep = "coleta_data"],
      [NewSession(0) EXCEPT !.currentFlow = "agendamento", !.currentStep = "coleta_nome",
                            !.data.cotacao = [EmptyCotacao EXCEPT !.nome = "Maria Silva"]],
      [NewSession(0) EXCEPT !.currentFlow = "cotacao", !.currentStep = "inicio"],
      [NewSession(0) EXCEPT !.currentFlow = "cotacao", !.currentStep = "coleta_telefone",
                            !.data.cotacao = [EmptyCotacao EXCEPT !.nome = "Maria Silva"]],
      [NewSession(0) EXCEPT !.currentFlow = "cotacao", !.currentStep = "coleta_nome",
                            !.data.cotacao = EmptyCotacao],
      [NewSession(0) EXCEPT !.currentFlow = "cotacao", !.currentStep = "resumo"],
      [NewSession(0) EXCEPT !.currentFlow = "cotacao", !.currentStep = "dados_iniciais"],
      [NewSession(0) EXCEPT !.currentFlow = "cotacao", !.currentStep = "tipo_seguro",
                            !.data.cotacao = [EmptyCotacao EXCEPT !.nome = "Maria Silva",
                                                                  !.email = "maria@x.com"]] }

InitRouting ==
    \E session \in StoredSessions :
        LET file == saveState(TRUE, [Boot.ss EXCEPT !.sessions = MapSet(@, Alice, session)])
            loaded == loadState(file, 0)
        IN StartWith([Boot EXCEPT !.on = loaded.on,
                                  !.ss = cleanInactiveSessions(loaded.s, MaxInactiveHours, 0)],
                     { Text("w " \o body, Alice, body) : body \in Words \cup {"vida"} },
                     Budget(MaxEvents, 0, 0, 1), file)

NextRouting ==
    \/ \E message \in inbox : Deliver(message)
    \/ \E i \in 1..Len(tasks) : Resume(i)

SpecRouting == InitRouting /\ [][NextRouting]_vars

\* the router finds no handler for the session: its flow is not in the flow
\* registry, or its step is not a step of the flow cotacao
Unresolved(session) ==
    LET currentFlow == IF session.currentFlow = "" THEN "welcome" ELSE session.currentFlow
        currentStep == IF session.currentStep = "" THEN "coleta_nome"
                       ELSE session.currentStep
    IN \/ currentFlow \notin flows
       \/ currentFlow = "cotacao" /\ currentStep \notin steps

\* the notices of a recoverable routing error
RoutingNotices == {"reiniciando", "passoNaoEncontrado"}

\* C24: when the session's flow is not in the flow registry, or its step is
\* not a registered step of the current flow, the step that runs the router's
\* dispatch of an event that is no global command requests exactly one send,
\* the recoverable-error notice to the sender (no reply of a step handler),
\* and the invocation takes the session out of that state only by resetting
\* it to the flow welcome at the step inicio.
RoutingErrorReset ==
    [][\A i \in 1..Len(tasks) :
          LET from == tasks[i].info.from
          IN /\ Resume(i)
             /\ from \in DOMAIN sessions
             /\ Unresolved(sessions[from])
             /\ handleGlobalCommands(from, tasks[i].info.body) = << >>
             => /\ FlowStep(i)
                   => /\ Len(out') = 1
                      /\ out'[1].to = formatPhone(from)
                      /\ out'[1].tag \in RoutingNotices
                /\ ~Unresolved(sessions'[from])
                   => /\ sessions'[from].currentFlow = "welcome"
                      /\ sessions'[from].currentStep = "inicio"]_vars

\* the step handler of the session's step throws on this input
HandlerThrows(from, input, session) ==
    /\ session.currentFlow = "cotacao"
    /\ session.currentStep \in steps
    /\ LET ops == StepHandler(session.currentStep, from, input, session)
       IN \E j \in 1..Len(ops) : ops[j].op = "throw"

\* the generic messages of a recoverable error
ErrorNotices == {"algoDeuErrado", "erroTecnico"}

\* C25: when the handler of the session's flow throws, the step that ran it
\* requests exactly one send, a generic error message to the sender, what is
\* left of processMessage is to return false, and the session has not moved to
\* another step with its flow and its data as they were.
ThrowRecovered ==
    [][\A i \in 1..Len(tasks) :
          LET from == tasks[i].info.from
          IN /\ FlowStep(i)
             /\ from \in DOMAIN sessions
             /\ HandlerThrows(from, UserInput(tasks[i].info), sessions[from])
             => /\ Len(out') = 1
                /\ out'[1].to = formatPhone(from)
                /\ out'[1].tag \in ErrorNotices
                /\ Continuation(i) = << Ret("false") >>
                /\ sessions'[from].currentStep # sessions[from].currentStep
                   => \/ sessions'[from].currentFlow # sessions[from].currentFlow
                      \/ sessions'[from].data # sessions[from].data]_vars

(***************************************************************************)
(* WhatsAppService alone: calls of sendText and sendListMessage before and *)
(* after the client connects, the typing delays, the flush of the queue    *)
(* and the shutdown.  The steps the event loop takes by itself are fair.   *)
(***************************************************************************)
\* the service as the actions below leave it, everything else as it was
ServiceStep(w, events, admin, fails) ==
    /\ ~wa.exited
    /\ budget.events >= events
    /\ budget.admin >= admin
    /\ budget.ticks >= fails
    /\ wa' = w
    /\ Failures(wa') - Failures(wa) = fails
    /\ budget' = [budget EXCEPT !.events = @ - events, !.admin = @ - admin,
                                !.ticks = @ - fails]
    /\ UNCHANGED << now, chatbot_is_on, sessions, stats, botTimers, cache, cacheTimers,
                    marked, disabledUntil, users, saved, tasks, deferred, leads, sheets,
                    out, last, inbox >>

\* the value a call returned to its caller
Return(w, req, val) == [w EXCEPT !.returned = Append(@, [seq |-> req.seq, val |-> val])]

\* a caller calls sendText or sendListMessage; the first fails calls on the
\* client throw
SendRequest(req, fails) ==
    LET call == [req EXCEPT !.seq = wa.submitted + 1, !.formattedTo = formatPhone(req.to)]
        r == Invoke([wa EXCEPT !.submitted = @ + 1], call, "caller", fails)
    IN ServiceStep(IF r.val = "pending" THEN r.w ELSE Return(r.w, call, r.val), 1, 0, fails)

\* the typing delay of the suspended call i is over
TypingDone(i, fails) ==
    LET c == wa.awaiting[i]
        r == AfterTyping([wa EXCEPT !.awaiting = RemoveAt(@, i)], c.req, fails)
    IN ServiceStep(IF c.origin = "caller" THEN Return(r.w, c.req, r.val)
                   ELSE [r.w EXCEPT !.pending = 0], 0, 0, fails)

\* the flush goes round its loop after the call it awaited and its delay
FlushQueue(fails) ==
    /\ wa.processingQueue
    /\ wa.pending = 0
    /\ ServiceStep(processMessageQueue(wa, fails), 0, 0, fails)

SetClient(fails) == ServiceStep(setClient(wa, fails), 0, 1, fails)

Destroy == ServiceStep(destroy(wa), 0, 1, 0)

\* a menu of one section, one of two sections, one whose section has no row
\* and one without a title
Menus ==
    { [ title |-> "O que deseja fazer agora?", description |-> "Escolha uma das opções abaixo:",
        sections |-> << [ title |-> "Opções",
                          rows |-> << [title |-> "Voltar ao Menu Principal",
                                       description |-> "Retornar ao menu principal"],
                                      [title |-> "Encerrar Conversa", description |-> ""] >> ] >> ],
      [ title |-> "Seguros", description |-> "",
        sections |-> << [ title |-> "Auto",
                          rows |-> << [title |-> "Carro", description |-> ""] >> ],
                        [ title |-> "Vida",
                          rows |-> << [title |-> "Individual", description |-> ""] >> ] >> ],
      [ title |-> "Seguradoras", description |-> "",
        sections |-> << [ title |-> "Parceiras",
                          rows |-> SubSeq(<< [title |-> "", description |-> ""] >>, 1, 0) ] >> ],
      [ title |-> "", description |-> "",
        sections |-> << [ title |-> "Opções",
                          rows |-> << [title |-> "Cotação", description |-> ""] >> ] >> ] }

\* the calls the callers make
Requests ==
    { [ seq |-> 0, to |-> Alice, formattedTo |-> "", kind |-> "text", body |-> "Olá",
        menu |-> NoMenu, withTyping |-> typing ] : typing \in BOOLEAN }
    \cup { [ seq |-> 0, to |-> Alice, formattedTo |-> "", kind |-> "list", body |-> "",
             menu |-> menu, withTyping |-> TRUE ] : menu \in Menus }

InitWire ==
    \E service \in {Constructed, Connected} :
        StartWithService(Boot, {}, Budget(MaxEvents, MaxTicks, MaxAdmin, 0), << >>, service)

NextWire ==
    \/ \E req \in Requests, fails \in 0..MaxTicks : SendRequest(req, fails)
    \/ \E i \in 1..Len(wa.awaiting), fails \in 0..MaxTicks : TypingDone(i, fails)
    \/ \E fails \in 0..MaxTicks : FlushQueue(fails)
    \/ \E fails \in 0..MaxTicks : SetClient(fails)
    \/ Destroy

SpecWire ==
    /\ InitWire
    /\ [][NextWire]_vars
    /\ WF_vars(\E i \in 1..Len(wa.awaiting) : TypingDone(i, 0))
    /\ WF_vars(FlushQueue(0))

\* the call for req ended in this step with the send of the plain-text
\* rendering of its menu, and returned what that send returned
FellBack(req, origin) ==
    /\ Len(wa'.wire) > Len(wa.wire)
    /\ LET sent == wa'.wire[Len(wa'.wire)]
       IN /\ sent.kind = "text"
          /\ sent.to = formatPhone(req.to)
          /\ sent.body = convertMenuToText(req.menu)
          /\ origin = "caller"
             => /\ Len(wa'.returned) = Len(wa.returned) + 1
                /\ wa'.returned[Len(wa'.returned)] =
                      [seq |-> req.seq, val |-> IF sent.ok THEN "true" ELSE "false"]

\* C26: when a call of sendListMessage reaches the delivery of its menu and
\* the menu fails validation or the client's sendListMessage throws, the next
\* call on the client is the send to the same user of the plain-text
\* rendering of that menu (title and numbered rows), and sendListMessage
\* returns what that send returned.
ListFallback ==
    [][\A i \in 1..Len(wa.awaiting), fails \in 0..MaxTicks :
          LET c == wa.awaiting[i]
          IN /\ TypingDone(i, fails)
             /\ c.req.kind = "list"
             /\ ~validateMenuConfig(c.req.menu) \/ fails > 0
             => FellBack(c.req, c.origin)]_vars

\* the client delivered the request of submission number q
Delivered(q) == \E j \in 1..Len(wa.wire) : wa.wire[j].seq = q /\ wa.wire[j].ok

\* no delivered request was submitted after a queued request that was not
\* delivered before it
InSubmissionOrder ==
    \A k \in 1..Len(wa.wire) :
        wa.wire[k].ok
        => \A q \in wa.queued :
              q < wa.wire[k].seq
              => \E j \in 1..(k - 1) : wa.wire[j].seq = q /\ wa.wire[j].ok

\* every request queued is delivered once the service is ready
QueuedDelivered ==
    \A q \in 1..MaxEvents : (q \in wa.queued /\ wa.isReady) ~> Delivered(q)

\* C27: the sends requested while the transport is not ready are queued and,
\* once it is ready, delivered in the order of their submission: no send
\* submitted later, the sends submitted during the flush included, is
\* delivered before a queued send submitted earlier, and every queued send is
\* eventually delivered.
QueueFlushedInOrder == []InSubmissionOrder /\ QueuedDelivered

(***************************************************************************)
(* Any conversation state, then selections from the option lists the bot   *)
(* renders: events of type list_response whose body is the title of the    *)
(* selected row (written without its emoji) and whose id is option_N.      *)
(***************************************************************************)
Picks ==
    { Pick("k1", Alice, "Já sou cliente DJS", "option_1"),
      Pick("k2", Alice, "Quero cotar um seguro", "option_2"),
      Pick("k3", Alice, "Falar com Atendente", "option_6"),
      Pick("k4", Alice, "Voltar ao Menu Principal", "option_1"),
      Pick("k5", Alice, "Encerrar Conversa", "option_2") }

InitPicks ==
    \E prefix \in Conversations :
        Start(Settle(SeqRun(Boot, prefix)), Picks, Budget(MaxEvents, 0, 0, 1))

NextPicks ==
    \/ \E message \in inbox : Deliver(message)
    \/ \E i \in 1..Len(tasks) : Resume(i)

SpecPicks == InitPicks /\ [][NextPicks]_vars

\* the event of invocation i carries a structured reply and a body text
Structured(i) ==
    /\ tasks[i].info.type = "list_response"
    /\ tasks[i].info.listResponse # Null
    /\ tasks[i].info.body # ""

\* the step of invocation i does what it would do had the event the selection
\* as its body: the same session updates, the same sends, the same switch of
\* the bot, and the same return or suspension
DecidedOnSelection(i) ==
    LET k == tasks[i].k
        selected == << [Head(k) EXCEPT !.info.body = tasks[i].info.listResponse] >> \o Tail(k)
    IN \E sent \in Outcomes(k) :
          LET r == Run([Cur EXCEPT !.sent = sent], selected)
          IN /\ sessions' = r.st.ss.sessions
             /\ out' = r.st.out
             /\ chatbot_is_on' = r.st.on
             /\ r.done <=> Returned(i)

\* C28: when an event carries both a structured reply and a body text, the
\* step that decides on the global commands and the step that runs the flow
\* handler act on the structured selection and not on the body text.
StructuredFirst ==
    [][\A i \in 1..Len(tasks) :
          (RouteStep(i) \/ FlowStep(i)) /\ Structured(i) => DecidedOnSelection(i)]_vars

(***************************************************************************)
(* The two choices of the finalization menu.                               *)
(***************************************************************************)
\* the input takes the first branch of handleFinalization, back to the main menu
ChoosesMainMenu(input) ==
    \/ Includes(input, "menu") \/ Includes(input, "option_1")
    \/ Includes(normalizeText(input), "voltar")
    \/ Includes(normalizeText(input), "menu principal")
    \/ extractOptionNumber(input) = "1"

\* the input takes the second branch of handleFinalization, ending the conversation
ChoosesEnd(input) ==
    /\ ~ChoosesMainMenu(input)
    /\ \/ Includes(input, "encerrar") \/ Includes(input, "option_2")
       \/ Includes(normalizeText(input), "encerrar")
       \/ Includes(normalizeText(input), "tchau")
       \/ extractOptionNumber(input) = "2"

\* what remains of handleFinalization once the closing text was sent
ClearSession(from) ==
    << Upd(from, [ currentFlow |-> "welcome", currentStep |-> "inicio", data |-> EmptyData ]),
       Ret("true") >>

\* C29: in the flow "finalization" both choices reset the session: the choice
\* to end the conversation leaves currentFlow "welcome", currentStep "inicio"
\* and empty data, and the choice to return to the main menu leaves currentFlow
\* "main_menu" with the data the finished flow collected cleared.
FinalizationResets ==
    [][\A i \in 1..Len(tasks) :
          LET from == tasks[i].info.from
              input == UserInput(tasks[i].info)
          IN /\ /\ FlowStep(i)
                /\ from \in DOMAIN sessions
                /\ sessions[from].currentFlow = "finalization"
                /\ ChoosesMainMenu(input)
                => /\ sessions'[from].currentFlow = "main_menu"
                   /\ sessions'[from].data = EmptyData
             /\ /\ FlowStep(i)
                /\ from \in DOMAIN sessions
                /\ sessions[from].currentFlow = "finalization"
                /\ ChoosesEnd(input)
                => Continuation(i) = ClearSession(from)
             /\ Resume(i) /\ tasks[i].k = ClearSession(from)
                => /\ sessions'[from].currentFlow = "welcome"
                   /\ sessions'[from].currentStep = "inicio"
                   /\ sessions'[from].data = EmptyData]_vars

(***************************************************************************)
(* Overlapping invocations whose awaited I/O always completes: the client  *)
(* settles every promise it returned, and the event loop then runs the     *)
(* continuation that awaited it.                                           *)
(***************************************************************************)
\* the bodies of the events: a command, a farewell, a request for a human, a
\* menu choice, free text, and a message with no text
TurnWords == { "menu", "tchau", "atendente", "1", "ok", "" }

TurnIds == { "w " \o body : body \in TurnWords }

InitTurns ==
    \/ \E prefix \in Conversations :
          Start(Settle(SeqRun(Boot, prefix)),
                { Text("w " \o body, Alice, body) : body \in TurnWords },
                Budget(MaxEvents, 0, 0, MaxInFlight))
    \/ \E session \in StoredSessions :
          LET file == saveState(TRUE, [Boot.ss EXCEPT !.sessions = MapSet(@, Alice, session)])
              loaded == loadState(file, 0)
          IN StartWith([Boot EXCEPT !.on = loaded.on,
                                    !.ss = cleanInactiveSessions(loaded.s, MaxInactiveHours, 0)],
                       { Text("w " \o body, Alice, body) : body \in TurnWords },
                       Budget(MaxEvents, 0, 0, MaxInFlight), file)

NextTurns ==
    \/ \E message \in inbox : Deliver(message)
    \/ \E i \in 1..Len(tasks) : Resume(i)

\* the steps of invocation i as tasks shows them: entry i left tasks, or its
\* continuation changed and no other entry did.  Resume(i) is enabled exactly
\* while entry i exists, and its steps are these steps.
Advanced(i) ==
    /\ i \in 1..Len(tasks)
    /\ \/ tasks' = RemoveAt(tasks, i)
       \/ /\ Len(tasks') = Len(tasks)
          /\ tasks'[i].k # tasks[i].k
          /\ \A j \in 1..Len(tasks) : j # i => tasks'[j] = tasks[j]

\* the continuation of every invocation that is suspended comes to run
SpecTurns ==
    /\ InitTurns
    /\ [][NextTurns]_vars
    /\ \A i \in 1..MaxInFlight : WF_tasks(Advanced(i))

\* an invocation for the event e is past the test of the bot being active
Admitted(e) ==
    \E i \in 1..Len(tasks) :
        /\ tasks[i].info.id = e
        /\ tasks[i].k # << >>
        /\ Head(tasks[i].k).op # "route"

\* an invocation for the event e has requested a send to the sender of e
Replied(e) == \E i \in 1..Len(tasks) : tasks[i].info.id = e /\ tasks[i].replied

\* C30: no turn is dropped silently: while the bot is enabled an event that is
\* no duplicate is not answered by returning at the test of the bot, an
\* invocation past that test does not return before it has requested a send to
\* the sender of its event, on the error paths as on the others, and it does
\* come to request one.
NoTurnDropped ==
    /\ [][\A i \in 1..Len(tasks) :
             /\ RouteStep(i) /\ chatbot_is_on => ~Returned(i)
             /\ Resume(i) /\ Returned(i) /\ ~RouteStep(i) => tasks[i].replied]_vars
    /\ \A e \in TurnIds : Admitted(e) ~> Replied(e)

\* an invocation whose step handler threw has sent the error notice to the sender
ErrorAnswered ==
    \E i \in 1..Len(tasks) :
        /\ tasks[i].replied
        /\ Len(out) = 1
        /\ out[1].to = formatPhone(tasks[i].info.from)
        /\ out[1].tag = "erroTecnico"

(***************************************************************************)
(* Leaving the quote intake before its summary.                            *)
(***************************************************************************)
\* C31: there is no mid-flow cancellation: a session in the flow "cotacao"
\* leaves that flow before the summary only through the reset command (or the
\* inactivity sweep, which deletes it); no step taken for a greeting, a
\* farewell, a request for a human, a back request or unrecognized text moves
\* the session to another flow.
NoMidFlowExit ==
    [][\A i \in 1..Len(tasks) :
          LET from == tasks[i].info.from
          IN /\ Resume(i)
             /\ from \in DOMAIN sessions
             /\ sessions[from].currentFlow = "cotacao"
             /\ from \in DOMAIN sessions'
             /\ sessions'[from].currentFlow \notin {"cotacao", "finalization"}
             => isMenuCommand(tasks[i].info.body)]_vars

(***************************************************************************)
(* The text helpers alone: a caller validates a CPF or normalizes a text,  *)
(* and normalizes again what normalizeText returned.                       *)
(***************************************************************************)
\* utils.isValidCPF(cpf); last.passed is what it returned
ValidateCPF(cpf) ==
    /\ budget.admin > 0
    /\ last' = [id |-> "isValidCPF", from |-> cpf, passed |-> isValidCPF(cpf), ret |-> Undef]
    /\ budget' = [budget EXCEPT !.admin = @ - 1]
    /\ UNCHANGED << wa, now, chatbot_is_on, sessions, stats, botTimers, cache, cacheTimers,
                    marked, disabledUntil, users, saved, tasks, deferred, leads, sheets, out,
                    inbox >>

\* utils.normalizeText(text); last.ret is what it returned
Normalize(text) ==
    /\ budget.admin > 0
    /\ last' = [id |-> "normalizeText", from |-> text, passed |-> FALSE,
                ret |-> normalizeText(text)]
    /\ budget' = [budget EXCEPT !.admin = @ - 1]
    /\ UNCHANGED << wa, now, chatbot_is_on, sessions, stats, botTimers, cache, cacheTimers,
                    marked, disabledUntil, users, saved, tasks, deferred, leads, sheets, out,
                    inbox >>

\* utils.normalizeText of a text normalizeText returned, as isMenuCommand does
\* with the normalizedBody of handleGlobalCommands
NormalizeAgain ==
    /\ last.id = "normalizeText"
    /\ last' = [id |-> "normalizeText twice", from |-> last.ret, passed |-> FALSE,
                ret |-> normalizeText(last.ret)]
    /\ UNCHANGED << wa, now, chatbot_is_on, sessions, stats, botTimers, cache, cacheTimers,
                    marked, disabledUntil, users, saved, tasks, deferred, leads, sheets, out,
                    inbox, budget >>

\* the two final digits a CPF may end with
Endings == { CharAt(DigitChars, i) \o CharAt(DigitChars, j) : i, j \in 1..10 }

\* CPFs bare, masked and spaced, with every pair of final digits; strings of
\* one repeated digit; strings with too few or too many digits, or none
CPFTexts ==
    { p \o e : p \in {"529982247", "111111111", "123456789", "000000001"}, e \in Endings }
    \cup { "529.982.247-" \o e : e \in Endings }
    \cup { "00000000000", "22222222222", "999.999.999-99", " 529 982 247 25 ",
           "5299822472", "529982247255", "529.982.247-2", "cpf 52998224725", "abc", "" }

\* texts as customers type them
TypedTexts ==
    { "oi", "Oi!", "Olá, tudo bem?", "  MENU  ", "menu.", "voltar...", "Bom dia", "NÃO",
      "já sou cliente", "(1)", "1.", "tchau!", "Maria  Silva", "maria@x.com",
      "529.982.247-25", "quero cotação de seguro", "?", "", " - ", "ok" }

InitText ==
    Start(Boot, { Text("c", Alice, body) : body \in CPFTexts }
                \cup { Text("t", Alice, body) : body \in TypedTexts },
          Budget(0, 0, MaxAdmin, 0))

NextText ==
    \/ \E message \in inbox : message.id = "c" /\ ValidateCPF(message.body)
    \/ \E message \in inbox : message.id = "t" /\ Normalize(message.body)
    \/ NormalizeAgain

SpecText == InitText /\ [][NextText]_vars

\* the check digit of the CPF standard for a weighted sum
Mod11(sum) == IF (sum * 10) % 11 = 10 THEN 0 ELSE (sum * 10) % 11

\* the digit at position i of a string of digits
DigitAt(numbers, i) == CHOOSE d \in 0..9 : CharAt(DigitChars, d + 1) = CharAt(numbers, i)

\* the sum of the first count digits, the first weighted count + 1 and the
\* last weighted 2
Weighted(numbers, count) ==
    LET RECURSIVE Upto(_)
        Upto(i) == IF i = 0 THEN 0 ELSE Upto(i - 1) + DigitAt(numbers, i) * (count + 2 - i)
    IN Upto(count)

\* 11 digits, not all equal, the last two being the check digits of the
\* first nine and of the first ten
WellFormedCPF(text) ==
    LET numbers == OnlyDigits(text)
    IN /\ Len(numbers) = 11
       /\ \E i \in 2..11 : CharAt(numbers, i) # CharAt(numbers, 1)
       /\ DigitAt(numbers, 10) = Mod11(Weighted(numbers, 9))
       /\ DigitAt(numbers, 11) = Mod11(Weighted(numbers, 10))

\* C32: isValidCPF accepts a string exactly when, its non-digit characters
\* removed, it has 11 digits that are not all equal and whose 10th and 11th
\* digits are the mod-11 check digits of the first nine and of the first ten:
\* it accepts "529.982.247-25" and "52998224725" and rejects "11111111111".
CPFAcceptedExactly ==
    last.id = "isValidCPF"
    => /\ last.passed <=> WellFormedCPF(last.from)
       /\ last.from \in {"529.982.247-25", "52998224725"} => last.passed
       /\ last.from = "11111111111" => ~last.passed

\* the masked CPF was accepted
MaskedCPFAccepted ==
    /\ last.id = "isValidCPF"
    /\ last.from = "529.982.247-25"
    /\ last.passed

\* C33: normalizeText yields one canonical form, with no space at either end
\* and no run of spaces, and is idempotent: normalizing what it returned
\* returns the same text.
NormalizeIdempotent ==
    /\ last.id = "normalizeText"
       => /\ last.ret = Trim(last.ret)
          /\ ~Includes(last.ret, "  ")
    /\ last.id = "normalizeText twice" => last.ret = last.from

(***************************************************************************)
(* Going back inside the quote intake.                                     *)
(***************************************************************************)
\* the steps a back request leaves for another step of the flow
BackSteps ==
    { "tipo_seguro", "coleta_cpf", "continuacao", "coleta_email", "dados_veiculo",
      "coleta_placa_chassi", "coleta_cep_pernoite" }

\* the step before each of them
Predecessor(step) ==
    CASE step = "tipo_seguro" -> "coleta_cpf"
      [] step = "coleta_cpf" -> "continuacao"
      [] step = "continuacao" -> "coleta_email"
      [] step = "coleta_email" -> "coleta_nome"
      [] step = "dados_veiculo" -> "tipo_seguro"
      [] step = "coleta_placa_chassi" -> "dados_veiculo"
      [] step = "coleta_cep_pernoite" -> "coleta_placa_chassi"

\* C34: each step handler of the quote intake, on a back request, moves
\* currentStep to the immediate predecessor of its step, keeps currentFlow
\* "cotacao" and leaves the data of the session unchanged.
BackToPredecessor ==
    [][\A i \in 1..Len(tasks) :
          LET from == tasks[i].info.from
          IN /\ FlowStep(i)
             /\ from \in DOMAIN sessions
             /\ sessions[from].currentFlow = "cotacao"
             /\ sessions[from].currentStep \in BackSteps
             /\ WantsBack(UserInput(tasks[i].info))
             => /\ sessions'[from].currentStep = Predecessor(sessions[from].currentStep)
                /\ sessions'[from].currentFlow = "cotacao"
                /\ sessions'[from].data = sessions[from].data]_vars

\* a back request at the plate step was answered with the prompt of the brand
WentBack ==
    \E i \in 1..Len(tasks) :
        /\ tasks[i].info.body = "anterior"
        /\ tasks[i].info.from \in DOMAIN sessions
        /\ sessions[tasks[i].info.from].currentFlow = "cotacao"
        /\ sessions[tasks[i].info.from].currentStep = "dados_veiculo"
        /\ Len(out) = 1
        /\ out[1].to = formatPhone(tasks[i].info.from)
        /\ out[1].tag = "solicitarDadosVeiculo"

(***************************************************************************)
(* An event whose writes are still pending, then the reset command: the    *)
(* two events are delivered in this order, the second possibly before the  *)
(* first invocation returned or before its deferred callback ran.          *)
(***************************************************************************)
RaceIds == << "r1", "r2" >>

\* a conversation, the event that leaves writes pending, and the reset command
Races ==
    { Scenario(<< Text("p01", Alice, "oi"), Text("p02", Alice, "1"), Text("p03", Alice, "5") >>,
               { Text("r1", Alice, "porto"), Text("r2", Alice, "menu") }),
      Scenario(<< Text("p01", Alice, "oi"), Text("p02", Alice, "1"), Text("p03", Alice, "3") >>,
               { Text("r1", Alice, "porto"), Text("r2", Alice, "menu") }),
      Scenario(<< Text("p01", Alice, "oi") >>,
               { Text("r1", Alice, "atendente"), Text("r2", Alice, "menu") }) }

InitRace ==
    \E sc \in Races :
        Start(Settle(SeqRun(Boot, sc.prefix)), sc.inbox,
              Budget(MaxEvents, MaxTicks, 0, MaxInFlight))

\* the transport delivers the events in their order
DeliverInOrder ==
    \E message \in inbox :
        /\ MaxEvents - budget.events + 1 \in 1..Len(RaceIds)
        /\ message.id = RaceIds[MaxEvents - budget.events + 1]
        /\ Deliver(message)

NextRace ==
    \/ DeliverInOrder
    \/ \E i \in 1..Len(tasks) : Resume(i)
    \/ \E i \in 1..Len(deferred) : RunDeferred(i)
    \/ \E to \in TimerTimes : Advance(to)

SpecRace == InitRace /\ [][NextRace]_vars

\* the invocation for the event id of Alice has marked it and returned
Processed(id) ==
    /\ generateMessageKey(Alice, id) \in DOMAIN marked
    /\ \A i \in 1..Len(tasks) : tasks[i].info.id # id

\* C35: a session write of an earlier event of the same address (the deferred
\* switch to the flow "finalization", or the session update and the disabling
\* of the bot that end a handoff) never lands after the effect of a reset
\* command processed later: once the reset command is processed, the session
\* stays at the welcome menu and the bot stays enabled until the next event.
ResetStands ==
    Processed("r2")
    => /\ chatbot_is_on
       /\ Alice \in DOMAIN sessions
       /\ sessions[Alice].currentFlow = "welcome_response"
       /\ sessions[Alice].currentStep = "aguardando_escolha"

(***************************************************************************)
(* What the flow handler is given for a typed message.                     *)
(***************************************************************************)
\* C36: for an event that carries no list or button response, the input passed
\* to the flow handler is the body of the event unchanged, whatever the body,
\* bodies that start with digits or contain a number word included.
TypedInputIsBody ==
    \A i \in 1..Len(tasks) :
        /\ tasks[i].info.type = "chat"
        /\ tasks[i].k # << >>
        /\ Head(tasks[i].k).op = "flow"
        => UserInput(Head(tasks[i].k).info) = tasks[i].info.body

(***************************************************************************)
(* A CPF typed at the step that asks for it.                               *)
(***************************************************************************)
\* valid CPFs, bare and masked
TypedCPFs ==
    { "52998224725", "529.982.247-25", "11144477735", "111.444.777-35",
      "01234567890", "012.345.678-90" }

InitCPF ==
    Start(Settle(SeqRun(Boot, SubSeq(HappyScript, 1, 5))),
          { Text("c " \o body, Alice, body) : body \in TypedCPFs },
          Budget(MaxEvents, 0, 0, 1))

NextCPF ==
    \/ \E message \in inbox : Deliver(message)
    \/ \E i \in 1..Len(tasks) : Resume(i)

SpecCPF == InitCPF /\ [][NextCPF]_vars

\* C37: at the step coleta_cpf an event delivered through processMessage whose
\* body is a valid CPF, with its mask or without it, advances the session to
\* the step tipo_seguro and stores the 11 digits, unmasked, in data.cotacao.cpf.
ValidCPFAdvances ==
    [][\A i \in 1..Len(tasks) :
          LET from == tasks[i].info.from
          IN /\ FlowStep(i)
             /\ from \in DOMAIN sessions
             /\ sessions[from].currentFlow = "cotacao"
             /\ sessions[from].currentStep = "coleta_cpf"
             /\ isValidCPF(tasks[i].info.body)
             => /\ sessions'[from].currentStep = "tipo_seguro"
                /\ sessions'[from].data.cotacao.cpf = OnlyDigits(tasks[i].info.body)]_vars

(***************************************************************************)
(* An intake restarted while the answer to its continuation offer is still *)
(* being sent: the events of IntakeScript in order, a later one possibly   *)
(* delivered before the invocation of an earlier one returned.             *)
(***************************************************************************)
\* at the continuation offer: continue, reset, ask for a quote again, then a
\* CPF and an insurance type
IntakeScript ==
    << Text("i1", Alice, "1"), Text("i2", Alice, "menu"), Text("i3", Alice, "2"),
       Text("i4", Alice, "52998224725"), Text("i5", Alice, "vida") >>

InitIntake ==
    Start(Settle(SeqRun(Boot, SubSeq(HappyScript, 1, 4))), Range(IntakeScript),
          Budget(Len(IntakeScript), 0, 0, MaxInFlight))

\* the transport delivers the next event of the script
DeliverIntake ==
    /\ budget.events > 0
    /\ Deliver(IntakeScript[Len(IntakeScript) - budget.events + 1])

NextIntake ==
    \/ DeliverIntake
    \/ \E i \in 1..Len(tasks) : Resume(i)

SpecIntake == InitIntake /\ [][NextIntake]_vars

\* the record carries a name that passes the name check of handleColetaNome,
\* an email that passes isValidEmail and a CPF that passes isValidCPF
Complete(row) ==
    /\ row.nome \notin {Undef, Null}
    /\ Len(Trim(row.nome)) >= 2
    /\ LooksLikeName(Trim(row.nome))
    /\ row.email \notin {Undef, Null}
    /\ isValidEmail(row.email)
    /\ row.cpf \notin {Undef, Null}
    /\ isValidCPF(row.cpf)

\* C38: every record pushed to the export sink carries a name that passed the
\* name check, an email that passed isValidEmail and a CPF that passed
\* isValidCPF, collected since the last start of the quote flow: the export is
\* never reached with one of the three missing.
ExportComplete ==
    /\ \A j \in 1..Len(leads) : Complete(leads[j])
    /\ \A j \in 1..Len(sheets.rows) : Complete(sheets.rows[j])

\* the history of a session is a chain from 'welcome' to its current flow
Chained(session) ==
    LET history == session.history
    IN IF history = << >> THEN session.currentFlow = "welcome"
       ELSE /\ history[1].from = "welcome"
            /\ \A j \in 2..Len(history) : history[j].from = history[j - 1].to
            /\ history[Len(history)].to = session.currentFlow

\* C39: the history of every session created in this process is a consistent
\* append-only chain: while the session exists its records are kept and only
\* followed by new ones, the first record's from is 'welcome', each record's
\* from is the previous record's to, and the last record's to is the session's
\* currentFlow.
HistoryChain ==
    /\ [](\A phone \in DOMAIN sessions : Chained(sessions[phone]))
    /\ [][\A phone \in DOMAIN sessions \cap DOMAIN sessions' :
             /\ Len(sessions'[phone].history) >= Len(sessions[phone].history)
             /\ SubSeq(sessions'[phone].history, 1, Len(sessions[phone].history))
                  = sessions[phone].history]_vars

\* two further events were processed and each changed the flow of a session
\* that had already changed flow three times
LongChain ==
    /\ budget.events = 0
    /\ tasks = << >>
    /\ Alice \in DOMAIN sessions
    /\ Len(sessions[Alice].history) >= 5
    /\ sessions[Alice].history[Len(sessions[Alice].history)].timestamp = now
    /\ sessions[Alice].history[Len(sessions[Alice].history) - 1].timestamp = now
    /\ sessions[Alice].history[Len(sessions[Alice].history) - 1].from = "finalization"

(***************************************************************************)
(* Two customers: the conversations of both, then up to MaxEvents further  *)
(* events of either, MaxInFlight invocations at a time, with the clock and *)
(* the setTimeout callbacks.                                               *)
(***************************************************************************)
\* what the second customer said before
BobScript ==
    << Text("b01", Bob, "oi"), Text("b02", Bob, "2"), Text("b03", Bob, "Maria Silva") >>

\* the further events of each
TwoWords ==
    { Text("a " \o body, Alice, body) :
        body \in { "oi", "menu", "atendente", "2", "Maria Silva", "13015900" } }
    \cup { Text("b " \o body, Bob, body) : body \in { "oi", "maria@x.com" } }

InitTwo ==
    \E theirs \in { << >>, BobScript },
       prefix \in { << >>, SubSeq(HappyScript, 1, 2), SubSeq(HappyScript, 1, 9) } :
        Start(Settle(SeqRun(Boot, theirs \o prefix)), TwoWords,
              Budget(MaxEvents, MaxTicks, 0, MaxInFlight))

NextTwo ==
    \/ \E message \in inbox : Deliver(message)
    \/ \E i \in 1..Len(tasks) : Resume(i)
    \/ \E i \in 1..Len(deferred) : RunDeferred(i)
    \/ \E to \in TimerTimes : Advance(to)

SpecTwo == InitTwo /\ [][NextTwo]_vars

\* the sessions of every address but those of owners are what they were: none
\* created, none removed, none changed in any field
Untouched(owners) ==
    \A phone \in (DOMAIN sessions \cup DOMAIN sessions') \ owners :
        /\ phone \in DOMAIN sessions
        /\ phone \in DOMAIN sessions'
        /\ sessions'[phone] = sessions[phone]

\* the addresses a setTimeout callback was created for
CallbackOwners(k) ==
    { k[j].to : j \in { n \in 1..Len(k) : k[n].op = "send" } }
    \cup { k[j].phone : j \in { n \in 1..Len(k) : k[n].op = "upd" } }

\* C40: processing an event from an address (its admission, each step of its
\* processMessage invocation on any flow, command or error path, and the
\* callbacks it left) never creates, modifies or removes the session of another
\* address: currentFlow, currentStep, data, history and lastActivity of that
\* session are unchanged.
SessionIsolation ==
    /\ [][\A message \in inbox :
             Deliver(message) => Untouched({extractMessageInfo(message).from})]_vars
    /\ [][\A i \in 1..Len(tasks) : Resume(i) => Untouched({tasks[i].info.from})]_vars
    /\ [][\A i \in 1..Len(deferred) :
             RunDeferred(i) => Untouched(CallbackOwners(deferred[i].k))]_vars

\* both customers have a session, the first one's was just written by its own
\* event, later than the last activity of the second one's
WroteOwnOnly ==
    /\ last.from = Alice
    /\ last.passed
    /\ {Alice, Bob} \subseteq DOMAIN sessions
    /\ sessions[Alice].lastActivity = now
    /\ sessions[Bob].lastActivity < now
    /\ sessions[Alice].currentFlow = "cotacao"
    /\ sessions[Bob].currentFlow = "cotacao"
    /\ sessions[Bob].data.cotacao.nome = "Maria Silva"

=============================================================================
